---- MODULE Spec2Model ----
(***************************************************************************)
(* Model of the command and path safety filter of cc-boilerplate           *)
(* (scripts/safety_logic.py).  A command is a sequence of one-character    *)
(* strings; the regular expressions of the source are written with the     *)
(* position-set combinators below, one definition per pattern.             *)
(***************************************************************************)
EXTENDS Integers, Sequences, FiniteSets, TLC

VARIABLES command, pc, verdict, base, edits,
          tool, input, env_access, injection, path_check, assessment,
          again, stdin, gate, call_log, hooks,
          files, directories, blocked_paths, read_only_paths, fs_call,
          mock_env, original_env, protected_vars, blocked_vars, env_call

rmVars == <<command, pc, verdict, base, edits>>

toolVars == <<tool, input, env_access, injection, path_check, assessment>>

pureVars == <<again>>

gateVars == <<stdin, gate>>

logVars == <<call_log, hooks>>

fsVars == <<files, directories, blocked_paths, read_only_paths, fs_call>>

envVars == <<mock_env, original_env, protected_vars, blocked_vars, env_call>>

vars == <<rmVars, toolVars, pureVars, gateVars, logVars, fsVars, envVars>>

\* what the operations of one component leave alone
outsideRm == <<toolVars, pureVars, gateVars, logVars, fsVars, envVars>>

outsideTool == <<rmVars, pureVars, gateVars, logVars, fsVars, envVars>>

outsideFs == <<rmVars, toolVars, pureVars, gateVars, logVars, envVars>>

outsideEnv == <<rmVars, toolVars, pureVars, gateVars, logVars, fsVars>>

outsidePure == <<rmVars, gateVars, logVars, fsVars, envVars>>

outsideGate == <<rmVars, toolVars, pureVars, logVars, fsVars, envVars>>

outsideLog == <<rmVars, toolVars, pureVars, gateVars, fsVars, envVars>>

(***************************************************************************)
(* Characters.                                                             *)
(***************************************************************************)
LowerChars == <<"a","b","c","d","e","f","g","h","i","j","k","l","m",
                "n","o","p","q","r","s","t","u","v","w","x","y","z">>

UpperChars == <<"A","B","C","D","E","F","G","H","I","J","K","L","M",
                "N","O","P","Q","R","S","T","U","V","W","X","Y","Z">>

Digits == {"0","1","2","3","4","5","6","7","8","9"}

Range(f) == {f[i] : i \in DOMAIN f}

IsLowerLetter(c) == c \in Range(LowerChars)

IsUpperLetter(c) == c \in Range(UpperChars)

\* str.split() and \s: the ASCII whitespace characters
IsSpace(c) == c \in {" ", "\t", "\n", "\r", "\f"}

\* \w of the re module
IsWordChar(c) == IsLowerLetter(c) \/ IsUpperLetter(c) \/ c \in Digits \/ c = "_"

\* a character class of a pattern: the listed characters, or all the others
Matches(c, class) == (c \in class.chars) # class.negated

\* \s
SpaceClass == [chars |-> {" ", "\t", "\n", "\r", "\f"}, negated |-> FALSE]

\* . (no DOTALL flag)
DotClass == [chars |-> {"\n"}, negated |-> TRUE]

\* [a-z]
LowerClass == [chars |-> Range(LowerChars), negated |-> FALSE]

\* [rf]
RorFClass == [chars |-> {"r", "f"}, negated |-> FALSE]

\* r
RClass == [chars |-> {"r"}, negated |-> FALSE]

\* f
FClass == [chars |-> {"f"}, negated |-> FALSE]

LowerChar(c) ==
    IF IsUpperLetter(c)
    THEN LowerChars[CHOOSE i \in DOMAIN UpperChars : UpperChars[i] = c]
    ELSE c

UpperChar(c) ==
    IF IsLowerLetter(c)
    THEN UpperChars[CHOOSE i \in DOMAIN LowerChars : LowerChars[i] = c]
    ELSE c

\* str.lower()
Lower(s) == [i \in 1..Len(s) |-> LowerChar(s[i])]

\* str.upper()
Upper(s) == [i \in 1..Len(s) |-> UpperChar(s[i])]

(***************************************************************************)
(* str.split() with no argument, and ' '.join().                           *)
(***************************************************************************)
RECURSIVE SplitFrom(_, _, _, _)
SplitFrom(s, i, cur, acc) ==
    IF i > Len(s)
    THEN IF cur = <<>> THEN acc ELSE Append(acc, cur)
    ELSE IF IsSpace(s[i])
         THEN SplitFrom(s, i + 1, <<>>, IF cur = <<>> THEN acc ELSE Append(acc, cur))
         ELSE SplitFrom(s, i + 1, Append(cur, s[i]), acc)

Split(s) == SplitFrom(s, 1, <<>>, <<>>)

RECURSIVE JoinWith(_, _)
JoinWith(sep, ws) ==
    IF ws = <<>> THEN <<>>
    ELSE IF Len(ws) = 1 THEN ws[1]
    ELSE ws[1] \o sep \o JoinWith(sep, Tail(ws))

\* variant: the lower() call is missing
Normalize_no_lower(s) == JoinWith(<<" ">>, Split(s))

\* ' '.join(command.lower().split())
Normalize(s) == JoinWith(<<" ">>, Split(Lower(s)))

StartsWith(s, lit) ==
    /\ Len(s) >= Len(lit)
    /\ \A k \in 1..Len(lit) : s[k] = lit[k]

EndsWith(s, lit) ==
    /\ Len(s) >= Len(lit)
    /\ \A k \in 1..Len(lit) : s[Len(s) - Len(lit) + k] = lit[k]

(***************************************************************************)
(* Regular expressions.  A pattern is matched from a set of start          *)
(* positions to the set of positions just after a match; re.search tries   *)
(* every start position.                                                   *)
(***************************************************************************)
Positions(s) == 1..(Len(s) + 1)

At(s, p, lit) ==
    /\ p + Len(lit) - 1 <= Len(s)
    /\ \A k \in 1..Len(lit) : s[p + k - 1] = lit[k]

\* a literal
Lit(s, P, lit) == {p + Len(lit) : p \in {q \in P : At(s, q, lit)}}

\* one character of the class
One(s, P, class) == {p + 1 : p \in {q \in P : q <= Len(s) /\ Matches(s[q], class)}}

\* class*
Star(s, P, class) ==
    {q \in Positions(s) :
        \E p \in P : p <= q /\ \A k \in p..(q - 1) : Matches(s[k], class)}

\* class+
Plus(s, P, class) == Star(s, One(s, P, class), class)

IsWordAt(s, p) == p >= 1 /\ p <= Len(s) /\ IsWordChar(s[p])

\* \b
Boundary(s, P) == {p \in P : IsWordAt(s, p - 1) # IsWordAt(s, p)}

\* $ (end of string, or just before a final newline)
AtEnd(s, P) == {p \in P : p = Len(s) + 1 \/ (p = Len(s) /\ s[p] = "\n")}

\* (?!class)
NotBefore(s, P, class) == {p \in P : p > Len(s) \/ ~Matches(s[p], class)}

Found(P) == P # {}

(***************************************************************************)
(* Python values: a str carries its characters, any other value only its   *)
(* type and its truth value.                                               *)
(***************************************************************************)
Str(chars) == [type |-> "str", val |-> chars, truthy |-> chars # <<>>]

NoneValue == [type |-> "NoneType", val |-> <<>>, truthy |-> FALSE]

IntValue(nonzero) == [type |-> "int", val |-> <<>>, truthy |-> nonzero]

ListValue(nonempty) == [type |-> "list", val |-> <<>>, truthy |-> nonempty]

\* isinstance(v, str)
IsStr(v) == v.type = "str"

(***************************************************************************)
(* is_dangerous_rm_command: the patterns.                                  *)
(***************************************************************************)
\* the backquote character, which cannot be written inside a TLA+ string
BQ == "bq"

L_rm == <<"r","m">>

L_echo_sp == <<"e","c","h","o"," ">>

L_hash == <<"#">>

L_no_preserve_root ==
    <<"-","-","n","o","-","p","r","e","s","e","r","v","e","-","r","o","o","t">>

L_recursive == <<"-","-","r","e","c","u","r","s","i","v","e">>

L_force == <<"-","-","f","o","r","c","e">>

L_home == <<"$","h","o","m","e">>

\* rm\s+.*  continuing a match that ends at a position of P
RmArgs(s, P) == Star(s, Plus(s, Lit(s, P, L_rm), SpaceClass), DotClass)

\* \brm\s+.*
WordRmArgs(s) == RmArgs(s, Boundary(s, Positions(s)))

\* -[a-z]*<class>
FlagCluster(s, P, class) == One(s, Star(s, Lit(s, P, <<"-">>), LowerClass), class)

\* variant: --no-preserve-root counts only after an rm
NoPreserveRoot_after_rm(s) == Found(Lit(s, WordRmArgs(s), L_no_preserve_root))

\* --no-preserve-root
NoPreserveRoot(s) == Found(Lit(s, Positions(s), L_no_preserve_root))

\* \brm\s+.*-[a-z]*[rf]
RmWithFlags(s) == Found(FlagCluster(s, WordRmArgs(s), RorFClass))

\* variant: &\s+$
ChainBackground_needs_space(s) ==
    Found(AtEnd(s, Plus(s, Lit(s, Positions(s), <<"&">>), SpaceClass)))

\* &\s*$
ChainBackground(s) == Found(AtEnd(s, Star(s, Lit(s, Positions(s), <<"&">>), SpaceClass)))

\* ;\s*
ChainSemicolon(s) == Found(Star(s, Lit(s, Positions(s), <<";">>), SpaceClass))

\* \|\|\s*
ChainOr(s) == Found(Star(s, Lit(s, Positions(s), <<"|","|">>), SpaceClass))

\* &&\s*
ChainAnd(s) == Found(Star(s, Lit(s, Positions(s), <<"&","&">>), SpaceClass))

\* \|\s*(?!\s)
ChainPipe(s) ==
    Found(NotBefore(s, Star(s, Lit(s, Positions(s), <<"|">>), SpaceClass), SpaceClass))

chaining_patterns(s) ==
    \/ ChainBackground(s)
    \/ ChainSemicolon(s)
    \/ ChainOr(s)
    \/ ChainAnd(s)
    \/ ChainPipe(s)

\* <opener>\s*rm\s+.*-[a-z]*[rf].*/
InjectAfter(s, opener) ==
    Found(Lit(s,
              Star(s,
                   FlagCluster(s,
                               RmArgs(s, Star(s, Lit(s, Positions(s), opener), SpaceClass)),
                               RorFClass),
                   DotClass),
              <<"/">>))

\* <open>.*rm\s+.*-[a-z]*[rf].*<close>
InjectInside(s, open, close) ==
    Found(Lit(s,
              Star(s,
                   FlagCluster(s,
                               RmArgs(s, Star(s, Lit(s, Positions(s), open), DotClass)),
                               RorFClass),
                   DotClass),
              close))

InjectSemicolon(s) == InjectAfter(s, <<";">>)

InjectAnd(s) == InjectAfter(s, <<"&","&">>)

InjectOr(s) == InjectAfter(s, <<"|","|">>)

InjectPipe(s) == InjectAfter(s, <<"|">>)

\* variant: ${ ... } in place of $( ... )
InjectDollarParen_braces(s) == InjectInside(s, <<"$","{">>, <<"}">>)

InjectDollarParen(s) == InjectInside(s, <<"$","(">>, <<")">>)

InjectBacktick(s) == InjectInside(s, <<BQ>>, <<BQ>>)

injection_patterns(s) ==
    \/ InjectSemicolon(s)
    \/ InjectAnd(s)
    \/ InjectOr(s)
    \/ InjectPipe(s)
    \/ InjectDollarParen(s)
    \/ InjectBacktick(s)

has_r_flag(s) ==
    \/ Found(FlagCluster(s, WordRmArgs(s), RClass))
    \/ Found(Lit(s, WordRmArgs(s), L_recursive))

has_f_flag(s) ==
    \/ Found(FlagCluster(s, WordRmArgs(s), FClass))
    \/ Found(Lit(s, WordRmArgs(s), L_force))

\* variant: \brm\s+\s+  (the .* is missing)
TargetStarts_no_args(s) ==
    Plus(s, Plus(s, Lit(s, Boundary(s, Positions(s)), L_rm), SpaceClass), SpaceClass)

\* variant: \brm\s+.*  (the \s+ before the target is missing)
TargetStarts_no_space(s) == WordRmArgs(s)

\* \brm\s+.*\s+  the common prefix of the target patterns
TargetStarts(s) == Plus(s, WordRmArgs(s), SpaceClass)

\* variant: the $ anchor is missing
TargetIs_unanchored(s, T, lit) == Found(Lit(s, T, lit))

\* <prefix><lit>$
TargetIs(s, T, lit) == Found(AtEnd(s, Lit(s, T, lit)))

\* <prefix><lit>\s*$
TargetIsSp(s, T, lit) == Found(AtEnd(s, Star(s, Lit(s, T, lit), SpaceClass)))

\* <prefix><lit>
TargetBegins(s, T, lit) == Found(Lit(s, T, lit))

\* <prefix><open>.*<close>
TargetSubst(s, T, open, close) == Found(Lit(s, Star(s, Lit(s, T, open), DotClass), close))

dangerous_path_patterns(s) ==
    LET T == TargetStarts(s)
    IN  \/ TargetIs(s, T, <<"/">>)
        \/ TargetIsSp(s, T, <<"/">>)
        \/ TargetBegins(s, T, <<"/","*">>)
        \/ TargetIs(s, T, <<"~">>)
        \/ TargetIs(s, T, <<"~","/">>)
        \/ TargetIsSp(s, T, L_home)
        \/ TargetIs(s, T, <<".",".">>)
        \/ TargetBegins(s, T, <<".",".","/",".",".">>)
        \/ TargetIs(s, T, <<".">>)
        \/ TargetIs(s, T, <<".","/">>)
        \/ TargetIs(s, T, <<"*">>)
        \/ TargetSubst(s, T, <<"$","(">>, <<")">>)
        \/ TargetSubst(s, T, <<BQ>>, <<BQ>>)

simple_dangerous_patterns(s) ==
    LET T == TargetStarts(s)
    IN  \/ TargetIs(s, T, <<"/">>)
        \/ TargetIsSp(s, T, <<"/">>)
        \/ TargetIs(s, T, <<"~">>)
        \/ TargetIs(s, T, <<".",".">>)
        \/ TargetIs(s, T, <<".">>)
        \/ TargetIs(s, T, <<"*">>)

\* variant: --no-preserve-root is tested before the echo and comment exemption
DangerousNormalized_flag_first(normalized) ==
    IF NoPreserveRoot(normalized)
    THEN TRUE
    ELSE IF StartsWith(normalized, L_echo_sp) \/ StartsWith(normalized, L_hash)
    THEN FALSE
    ELSE IF RmWithFlags(normalized) /\ chaining_patterns(normalized)
    THEN TRUE
    ELSE IF injection_patterns(normalized)
    THEN TRUE
    ELSE IF has_r_flag(normalized) /\ has_f_flag(normalized)
    THEN dangerous_path_patterns(normalized)
    ELSE IF Found(FlagCluster(normalized, WordRmArgs(normalized), RClass))
    THEN simple_dangerous_patterns(normalized)
    ELSE FALSE

\* the verdict on the normalized command
DangerousNormalized(normalized) ==
    IF StartsWith(normalized, L_echo_sp) \/ StartsWith(normalized, L_hash)
    THEN FALSE
    ELSE IF NoPreserveRoot(normalized)
    THEN TRUE
    ELSE IF RmWithFlags(normalized) /\ chaining_patterns(normalized)
    THEN TRUE
    ELSE IF injection_patterns(normalized)
    THEN TRUE
    ELSE IF has_r_flag(normalized) /\ has_f_flag(normalized)
    THEN dangerous_path_patterns(normalized)
    ELSE IF Found(FlagCluster(normalized, WordRmArgs(normalized), RClass))
    THEN simple_dangerous_patterns(normalized)
    ELSE FALSE

is_dangerous_rm_command(cmd) ==
    IF ~cmd.truthy \/ ~IsStr(cmd)
    THEN FALSE
    ELSE DangerousNormalized(Normalize(cmd.val))

(***************************************************************************)
(* A tool invocation.  tool_name is a string; tool_input is a dict with    *)
(* the keys command and file_path (each present or missing), or a value    *)
(* that is no dict.  A call returns a value or raises.                     *)
(***************************************************************************)
Missing == [type |-> "missing", val |-> <<>>, truthy |-> FALSE]

Dict(command_value, file_path_value) ==
    [isdict |-> TRUE, command |-> command_value, file_path |-> file_path_value]

NotADict == [isdict |-> FALSE, command |-> Missing, file_path |-> Missing]

\* dict.get(key, '')
GetOrEmpty(v) == IF v.type = "missing" THEN Str(<<>>) ELSE v

Returns(v) == [raised |-> "none", value |-> v]

Raises(exception) == [raised |-> exception, value |-> FALSE]

FileTools == {"Read", "Edit", "MultiEdit", "Write"}

(***************************************************************************)
(* is_env_file_access                                                      *)
(***************************************************************************)
L_env == <<".","e","n","v">>

L_env_sample == <<".","e","n","v",".","s","a","m","p","l","e">>

L_dot_sample == <<".","s","a","m","p","l","e">>

L_dot_local == <<".","l","o","c","a","l">>

\* (?!<lit>)
NotBeforeLit(s, P, lit) == {p \in P : ~At(s, p, lit)}

\* \.env\b(?!\.sample|\.local)  continuing a match that ends at a position of P
EnvToken(s, P) ==
    NotBeforeLit(s, NotBeforeLit(s, Boundary(s, Lit(s, P, L_env)), L_dot_sample),
                 L_dot_local)

\* \b<verb>\s+
VerbSpace(s, verb) == Plus(s, Lit(s, Boundary(s, Positions(s)), verb), SpaceClass)

\* \b<verb>\s+\.env\b(?!\.sample|\.local)
EnvAfterVerb(s, verb) == Found(EnvToken(s, VerbSpace(s, verb)))

\* \bgrep\s+.*\.env\b(?!\.sample|\.local)
EnvGrep(s) == Found(EnvToken(s, Star(s, VerbSpace(s, <<"g","r","e","p">>), DotClass)))

\* \b<verb>\s+\.env\s
EnvAsSource(s, verb) == Found(One(s, Lit(s, VerbSpace(s, verb), L_env), SpaceClass))

\* \becho\s+.*>\s*\.env\b(?!\.sample|\.local)
EnvEcho(s) ==
    Found(EnvToken(s,
                   Star(s,
                        Lit(s, Star(s, VerbSpace(s, <<"e","c","h","o">>), DotClass), <<">">>),
                        SpaceClass)))

env_patterns(s) ==
    \/ EnvAfterVerb(s, <<"c","a","t">>)
    \/ EnvAfterVerb(s, <<"l","e","s","s">>)
    \/ EnvAfterVerb(s, <<"h","e","a","d">>)
    \/ EnvAfterVerb(s, <<"t","a","i","l">>)
    \/ EnvGrep(s)
    \/ EnvAsSource(s, <<"c","p">>)
    \/ EnvAsSource(s, <<"m","v">>)
    \/ EnvAfterVerb(s, L_rm)
    \/ EnvEcho(s)
    \/ EnvAfterVerb(s, <<"t","o","u","c","h">>)

\* variant: a path is exempt when .env.sample occurs anywhere in it
EnvFilePath_sample_anywhere(file_path) ==
    (\E p \in 1..Len(file_path) : At(file_path, p, L_env))
    /\ ~(\E p \in 1..Len(file_path) : At(file_path, p, L_env_sample))

\* '.env' in file_path and not file_path.endswith('.env.sample')
EnvFilePath(file_path) ==
    (\E p \in 1..Len(file_path) : At(file_path, p, L_env))
    /\ ~EndsWith(file_path, L_env_sample)

\* variant: the file_path of a Bash call is looked at as well
is_env_file_access_bash_path(tool_name, tool_input) ==
    IF tool_name = "" \/ ~tool_input.isdict
    THEN Returns(FALSE)
    ELSE IF tool_name \in FileTools
    THEN LET file_path == GetOrEmpty(tool_input.file_path)
         IN  IF ~IsStr(file_path) THEN Raises("TypeError")
             ELSE Returns(EnvFilePath(file_path.val))
    ELSE IF tool_name = "Bash"
    THEN LET command_value == GetOrEmpty(tool_input.command)
             file_path == GetOrEmpty(tool_input.file_path)
         IN  IF ~IsStr(command_value) THEN Raises("TypeError")
             ELSE Returns(env_patterns(command_value.val)
                          \/ (IsStr(file_path) /\ EnvFilePath(file_path.val)))
    ELSE Returns(FALSE)

\* variant: every tool other than Bash is taken for a file tool
is_env_file_access_any_tool(tool_name, tool_input) ==
    IF tool_name = "" \/ ~tool_input.isdict
    THEN Returns(FALSE)
    ELSE IF tool_name = "Bash"
    THEN LET command_value == GetOrEmpty(tool_input.command)
         IN  IF ~IsStr(command_value) THEN Raises("TypeError")
             ELSE Returns(env_patterns(command_value.val))
    ELSE LET file_path == GetOrEmpty(tool_input.file_path)
         IN  IF ~IsStr(file_path) THEN Raises("TypeError")
             ELSE Returns(EnvFilePath(file_path.val))

is_env_file_access(tool_name, tool_input) ==
    IF tool_name = "" \/ ~tool_input.isdict
    THEN Returns(FALSE)
    ELSE IF tool_name \in FileTools
    THEN LET file_path == GetOrEmpty(tool_input.file_path)
         IN  IF ~IsStr(file_path)
             THEN Raises("TypeError")
             ELSE Returns(EnvFilePath(file_path.val))
    ELSE IF tool_name = "Bash"
    THEN LET command_value == GetOrEmpty(tool_input.command)
         IN  IF ~IsStr(command_value)
             THEN Raises("TypeError")
             ELSE Returns(env_patterns(command_value.val))
    ELSE Returns(FALSE)

(***************************************************************************)
(* detect_command_injection_patterns                                       *)
(***************************************************************************)
\* [;&|]
ChainClass == [chars |-> {";", "&", "|"}, negated |-> FALSE]

\* [^<c>]
AllBut(c) == [chars |-> {c}, negated |-> TRUE]

\* <open>[^<close>]*<close>
Enclosed(s, open, close) ==
    Found(Lit(s, Star(s, Lit(s, Positions(s), open), AllBut(close)), <<close>>))

\* <lit> in s
In(lit, s) == Found(Lit(s, Positions(s), lit))

When(condition, name) == IF condition THEN <<name>> ELSE <<>>

detect_command_injection_patterns(cmd) ==
    IF ~cmd.truthy \/ ~IsStr(cmd)
    THEN <<>>
    ELSE LET s == cmd.val
             chained == Found(Plus(s, Positions(s), ChainClass))
         IN  When(chained /\ In(<<";">>, s), "command_chaining_semicolon")
             \o When(chained /\ In(<<"&","&">>, s), "command_chaining_and")
             \o When(chained /\ In(<<"|","|">>, s), "command_chaining_or")
             \o When(chained /\ In(<<"|">>, s) /\ ~In(<<"|","|">>, s), "pipe_injection")
             \o When(Enclosed(s, <<"$","(">>, ")"), "command_substitution_dollar")
             \o When(Enclosed(s, <<BQ>>, BQ), "command_substitution_backtick")
             \o When(Enclosed(s, <<"$","{">>, "}"), "variable_expansion")

(***************************************************************************)
(* validate_file_path_access.  A pattern of an allow list is ^<lit>,       *)
(* optionally followed by one character class.                             *)
(***************************************************************************)
Pattern(lit, next) == [lit |-> lit, next |-> next]

\* re.search(pattern, s) for such a pattern
PatternMatches(s, pattern) ==
    IF pattern.next = <<>>
    THEN Found(Lit(s, {1}, pattern.lit))
    ELSE Found(One(s, Lit(s, {1}, pattern.lit), pattern.next[1]))

\* the parameter allowed_patterns: None, or a list of patterns
NoAllowList == [isnone |-> TRUE, patterns |-> <<>>]

AllowList(patterns) == [isnone |-> FALSE, patterns |-> patterns]

default_allowed_patterns ==
    << Pattern(<<".","/">>, <<AllBut("/")>>),
       Pattern(<<>>, <<AllBut("/")>>),
       Pattern(<<"/","t","m","p","/">>, <<>>),
       Pattern(<<"/","v","a","r","/","t","m","p","/">>, <<>>) >>

\* ^/home/[^/]+/\.
HiddenInHome(s) == Found(Lit(s, Plus(s, Lit(s, {1}, <<"/","h","o","m","e","/">>), AllBut("/")), <<"/",".">>))

\* ^\.\./.*/
Traversal(s) == Found(Lit(s, Star(s, Lit(s, {1}, <<".",".","/">>), DotClass), <<"/">>))

dangerous_patterns(s) ==
    \/ PatternMatches(s, Pattern(<<"/","e","t","c","/">>, <<>>))
    \/ PatternMatches(s, Pattern(<<"/","b","i","n","/">>, <<>>))
    \/ PatternMatches(s, Pattern(<<"/","s","b","i","n","/">>, <<>>))
    \/ PatternMatches(s, Pattern(<<"/","u","s","r","/","b","i","n","/">>, <<>>))
    \/ PatternMatches(s, Pattern(<<"/","r","o","o","t","/">>, <<>>))
    \/ HiddenInHome(s)
    \/ Traversal(s)

AnyMatches(s, patterns) == \E i \in 1..Len(patterns) : PatternMatches(s, patterns[i])

\* variant: a path that matches no pattern at all is allowed
validate_file_path_access_default_allow(file_path, allowed_patterns) ==
    IF file_path = <<>>
    THEN FALSE
    ELSE IF dangerous_patterns(file_path)
    THEN FALSE
    ELSE TRUE

\* variant: the allow loop comes before the deny loop
validate_file_path_access_allow_first(file_path, allowed_patterns) ==
    IF file_path = <<>>
    THEN FALSE
    ELSE IF AnyMatches(file_path,
                       IF allowed_patterns.isnone
                       THEN default_allowed_patterns
                       ELSE allowed_patterns.patterns)
    THEN TRUE
    ELSE FALSE

validate_file_path_access(file_path, allowed_patterns) ==
    IF file_path = <<>>
    THEN FALSE
    ELSE IF dangerous_patterns(file_path)
    THEN FALSE
    ELSE AnyMatches(file_path,
                    IF allowed_patterns.isnone
                    THEN default_allowed_patterns
                    ELSE allowed_patterns.patterns)

(***************************************************************************)
(* get_safety_assessment                                                   *)
(***************************************************************************)
NoReason == [none |-> TRUE, text |-> "", path |-> <<>>]

Reason(text, path) == [none |-> FALSE, text |-> text, path |-> path]

Assessment(blocked, reason, warnings, tool_name, patterns_detected) ==
    [blocked |-> blocked, reason |-> reason, warnings |-> warnings,
     tool_name |-> tool_name, patterns_detected |-> patterns_detected]

\* variant: a detected injection pattern blocks the command
AssessBash_blocks_injection(tool_name, tool_input) ==
    IF ~tool_input.isdict
    THEN Raises("AttributeError")
    ELSE LET command_value == GetOrEmpty(tool_input.command)
             injection_patterns_found == detect_command_injection_patterns(command_value)
         IN  IF is_dangerous_rm_command(command_value)
             THEN Returns(Assessment(TRUE, Reason("Dangerous rm command detected", <<>>),
                                     <<>>, tool_name, <<"dangerous_rm">>))
             ELSE IF injection_patterns_found # <<>>
             THEN Returns(Assessment(TRUE, NoReason,
                                     <<[text |-> "Command injection patterns detected: ",
                                        patterns |-> injection_patterns_found]>>,
                                     tool_name, injection_patterns_found))
             ELSE Returns(Assessment(FALSE, NoReason, <<>>, tool_name, <<>>))

\* the Bash branch, once the .env check has not matched
AssessBash(tool_name, tool_input) ==
    IF ~tool_input.isdict
    THEN Raises("AttributeError")
    ELSE LET command_value == GetOrEmpty(tool_input.command)
             injection_patterns_found == detect_command_injection_patterns(command_value)
         IN  IF is_dangerous_rm_command(command_value)
             THEN Returns(Assessment(TRUE, Reason("Dangerous rm command detected", <<>>),
                                     <<>>, tool_name, <<"dangerous_rm">>))
             ELSE IF injection_patterns_found # <<>>
             THEN Returns(Assessment(FALSE, NoReason,
                                     <<[text |-> "Command injection patterns detected: ",
                                        patterns |-> injection_patterns_found]>>,
                                     tool_name, injection_patterns_found))
             ELSE Returns(Assessment(FALSE, NoReason, <<>>, tool_name, <<>>))

\* variant: a refused path is blocked without a reason
AssessFile_no_reason(tool_name, tool_input) ==
    IF ~tool_input.isdict
    THEN Raises("AttributeError")
    ELSE LET file_path == GetOrEmpty(tool_input.file_path)
         IN  IF ~file_path.truthy
             THEN Returns(Assessment(FALSE, NoReason, <<>>, tool_name, <<>>))
             ELSE IF ~IsStr(file_path)
             THEN Raises("TypeError")
             ELSE IF ~validate_file_path_access(file_path.val, NoAllowList)
             THEN Returns(Assessment(TRUE, NoReason, <<>>, tool_name,
                                     <<"unsafe_file_access">>))
             ELSE Returns(Assessment(FALSE, NoReason, <<>>, tool_name, <<>>))

\* the file tool branch, once the .env check has not matched
AssessFile(tool_name, tool_input) ==
    IF ~tool_input.isdict
    THEN Raises("AttributeError")
    ELSE LET file_path == GetOrEmpty(tool_input.file_path)
         IN  IF ~file_path.truthy
             THEN Returns(Assessment(FALSE, NoReason, <<>>, tool_name, <<>>))
             ELSE IF ~IsStr(file_path)
             THEN Raises("TypeError")
             ELSE IF ~validate_file_path_access(file_path.val, NoAllowList)
             THEN Returns(Assessment(TRUE,
                                     Reason("File path access not allowed: ", file_path.val),
                                     <<>>, tool_name, <<"unsafe_file_access">>))
             ELSE Returns(Assessment(FALSE, NoReason, <<>>, tool_name, <<>>))

\* variant: the dangerous rm check of a Bash command comes before the .env check
get_safety_assessment_rm_first(tool_name, tool_input) ==
    LET env == is_env_file_access(tool_name, tool_input)
    IN  IF env.raised # "none"
        THEN env
        ELSE IF tool_name = "Bash" /\ tool_input.isdict
                /\ is_dangerous_rm_command(GetOrEmpty(tool_input.command))
        THEN AssessBash(tool_name, tool_input)
        ELSE IF env.value
        THEN Returns(Assessment(TRUE,
                                Reason("Access to .env files containing sensitive data is prohibited", <<>>),
                                <<>>, tool_name, <<"env_file_access">>))
        ELSE IF tool_name = "Bash"
        THEN AssessBash(tool_name, tool_input)
        ELSE IF tool_name \in FileTools
        THEN AssessFile(tool_name, tool_input)
        ELSE Returns(Assessment(FALSE, NoReason, <<>>, tool_name, <<>>))

get_safety_assessment(tool_name, tool_input) ==
    LET env == is_env_file_access(tool_name, tool_input)
    IN  IF env.raised # "none"
        THEN env
        ELSE IF env.value
        THEN Returns(Assessment(TRUE,
                                Reason("Access to .env files containing sensitive data is prohibited", <<>>),
                                <<>>, tool_name, <<"env_file_access">>))
        ELSE IF tool_name = "Bash"
        THEN AssessBash(tool_name, tool_input)
        ELSE IF tool_name \in FileTools
        THEN AssessFile(tool_name, tool_input)
        ELSE Returns(Assessment(FALSE, NoReason, <<>>, tool_name, <<>>))

(***************************************************************************)
(* The commands the model classifies: words, joined by single spaces.      *)
(***************************************************************************)
W_rm == <<"r","m">>

W_ls == <<"l","s">>

W_farm == <<"f","a","r","m">>

W_echo == <<"e","c","h","o">>

W_hash == <<"#">>

W_semi == <<";">>

W_and == <<"&","&">>

W_or == <<"|","|">>

W_pipe == <<"|">>

W_amp == <<"&">>

W_sub_rm == <<"$","(","r","m">>

W_bq_rm == <<BQ,"r","m">>

W_sub_farm == <<"$","(","f","a","r","m">>

W_close == <<")">>

W_bq == <<BQ>>

W_r == <<"-","r">>

W_f == <<"-","f">>

W_rf == <<"-","r","f">>

W_recursive == <<"-","-","r","e","c","u","r","s","i","v","e">>

W_force == <<"-","-","f","o","r","c","e">>

W_npr == <<"-","-","n","o","-","p","r","e","s","e","r","v","e","-","r","o","o","t">>

W_ofs == <<"-","-","o","n","e","-","f","i","l","e","-","s","y","s","t","e","m">>

W_root == <<"/">>

W_home == <<"~">>

W_dot == <<".">>

W_dotdot == <<".",".">>

W_star == <<"*">>

W_root_star == <<"/","*">>

W_home_slash == <<"~","/">>

W_env_home == <<"$","H","O","M","E">>

W_up_up == <<".",".","/",".",".">>

W_dot_slash == <<".","/">>

W_tmp == <<"/","t","m","p","/","x">>

W_build == <<"b","u","i","l","d","/">>

W_up_up_sub == <<".",".","/",".",".","/","a","-","r","f">>

W_root_star_x == <<"/","*","x">>

W_x == <<"x">>

Heads ==
    { <<W_ls>>, <<W_farm>>, <<W_echo>>, <<W_echo, W_rm>>, <<W_hash, W_rm>>,
      <<W_ls, W_semi, W_rm>>, <<W_ls, W_sub_rm>>, <<W_ls, W_bq_rm>>,
      <<W_ls, W_sub_farm>>, <<>> }

Flags ==
    { <<>>, <<W_r>>, <<W_f>>, <<W_rf>>, <<W_r, W_f>>, <<W_recursive>>,
      <<W_recursive, W_force>>, <<W_npr>>, <<W_r, W_ofs>> }

FewFlags == { <<>>, <<W_r>>, <<W_f>>, <<W_rf>>, <<W_npr>> }

Targets ==
    { <<>>, <<W_root>>, <<W_home>>, <<W_dot>>, <<W_dotdot>>, <<W_star>>,
      <<W_root_star>>, <<W_home_slash>>, <<W_env_home>>, <<W_up_up>>,
      <<W_dot_slash>>, <<W_tmp>>, <<W_build>>, <<W_up_up_sub>>, <<W_root_star_x>>,
      <<W_x>>, <<W_root, W_x>>, <<W_x, W_root>> }

FewTargets == { <<>>, <<W_root>>, <<W_x>>, <<W_up_up_sub>> }

Suffixes ==
    { <<>>, <<W_close>>, <<W_bq>>, <<W_semi, W_ls>>, <<W_and, W_ls>>,
      <<W_or, W_ls>>, <<W_pipe, W_ls>>, <<W_amp>>, <<W_semi, W_rm, W_rf, W_root>> }

Line(ws) == Str(JoinWith(<<" ">>, ws))

\* rm with every combination of flags, targets and what follows
RmCommands ==
    { Line(<<W_rm>> \o f \o t \o x) : f \in Flags, t \in Targets, x \in Suffixes }

\* other commands, and rm after a prefix
OtherCommands ==
    { Line(h \o f \o t \o x) :
        h \in Heads, f \in FewFlags, t \in FewTargets, x \in Suffixes }

NonStrings == { NoneValue, IntValue(FALSE), IntValue(TRUE), ListValue(FALSE), ListValue(TRUE) }

Commands == RmCommands \cup OtherCommands \cup NonStrings

(***************************************************************************)
(* The state machine: a caller classifies a command, and may then submit   *)
(* a variant of it that differs in letter case or in white space.          *)
(***************************************************************************)
MaxEdits == 1

\* str.title(): runs of letters start in upper case and continue in lower case
Title(s) ==
    [i \in 1..Len(s) |->
        IF i > 1 /\ (IsLowerLetter(s[i - 1]) \/ IsUpperLetter(s[i - 1]))
        THEN LowerChar(s[i])
        ELSE UpperChar(s[i])]

CaseStyles == {"upper", "lower", "title"}

ApplyCase(s, style) ==
    CASE style = "upper" -> Upper(s)
      [] style = "lower" -> Lower(s)
      [] style = "title" -> Title(s)

RECURSIVE DoubleSpaces(_)
DoubleSpaces(s) ==
    IF s = <<>> THEN <<>>
    ELSE IF IsSpace(Head(s))
         THEN <<Head(s), Head(s)>> \o DoubleSpaces(Tail(s))
         ELSE <<Head(s)>> \o DoubleSpaces(Tail(s))

Tabs(s) == [i \in 1..Len(s) |-> IF s[i] = " " THEN "\t" ELSE s[i]]

SpaceStyles == {"lead", "trail", "double", "tabs"}

ApplySpace(s, style) ==
    CASE style = "lead" -> <<" ">> \o s
      [] style = "trail" -> s \o <<"\t">>
      [] style = "double" -> DoubleSpaces(s)
      [] style = "tabs" -> Tabs(s)

VerdictName(v) == IF v THEN "dangerous" ELSE "safe"

\* no call of a function has returned yet
Pending == [raised |-> "pending", value |-> FALSE]

NotDetected == [done |-> FALSE, names |-> <<>>]

NotValidated == [done |-> FALSE, allowed_patterns |-> NoAllowList, value |-> FALSE]

\* standard input of the gate: a text that is not JSON, or a JSON object
\* that may lack either field
NotJson == [json |-> FALSE, fields |-> {}, tool_name |-> "", tool_input |-> NotADict]

JsonObject(fields, tool_name, tool_input) ==
    [json |-> TRUE, fields |-> fields, tool_name |-> tool_name, tool_input |-> tool_input]

\* the gate process before it has read anything
GateStart ==
    [pc |-> "start", tool_name |-> "", tool_input |-> NotADict, outcome |-> Pending,
     exit_code |-> -1, stderr |-> <<>>]

NoGate == stdin = NotJson /\ gate = GateStart

\* hook_calls.json: absent, or a file with a text that is a JSON array of
\* calls or (just opened for writing) empty
NoFile == [exists |-> FALSE, json |-> FALSE, calls |-> <<>>]

JsonFile(calls) == [exists |-> TRUE, json |-> TRUE, calls |-> calls]

EmptyFile == [exists |-> TRUE, json |-> FALSE, calls |-> <<>>]

NoHooks == call_log = NoFile /\ hooks = <<>>

\* no MockFileSystem has been constructed and none of its operations called
NoFsCall ==
    [op |-> "", path |-> <<>>, dest |-> <<>>, raised |-> FALSE, error |-> "",
     before |-> <<>>]

NoFs ==
    /\ files = <<>>
    /\ directories = {}
    /\ blocked_paths = {}
    /\ read_only_paths = {}
    /\ fs_call = NoFsCall

\* no MockEnvironment has been constructed and none of its operations called
NoEnvCall == [op |-> "", key |-> "", raised |-> FALSE, before |-> <<>>]

NoEnv ==
    /\ mock_env = <<>>
    /\ original_env = <<>>
    /\ protected_vars = {}
    /\ blocked_vars = {}
    /\ env_call = NoEnvCall

NoMocks == NoFs /\ NoEnv

\* the assessment has not been asked for a second time
NotRepeated == [done |-> FALSE, tool_input |-> NotADict, result |-> Pending]

NoToolCall ==
    /\ tool = ""
    /\ input = NotADict
    /\ env_access = Pending
    /\ injection = NotDetected
    /\ path_check = NotValidated
    /\ assessment = Pending
    /\ again = NotRepeated

Init ==
    /\ command \in Commands
    /\ pc = "input"
    /\ verdict = FALSE
    /\ base = "none"
    /\ edits = 0
    /\ NoToolCall
    /\ NoGate
    /\ NoHooks
    /\ NoMocks

\* the caller asks for the verdict on the command
Classify ==
    /\ pc = "input"
    /\ verdict' = is_dangerous_rm_command(command)
    /\ pc' = "classified"
    /\ base' = IF edits = 0 THEN VerdictName(verdict') ELSE base
    /\ UNCHANGED <<command, edits, outsideRm>>

\* the caller submits the command again in another letter case
Recase ==
    /\ pc = "classified"
    /\ IsStr(command)
    /\ edits < MaxEdits
    /\ \E style \in CaseStyles :
          /\ ApplyCase(command.val, style) # command.val
          /\ command' = Str(ApplyCase(command.val, style))
    /\ pc' = "input"
    /\ edits' = edits + 1
    /\ UNCHANGED <<verdict, base, outsideRm>>

\* the caller submits the command again with other white space
Respace ==
    /\ pc = "classified"
    /\ IsStr(command)
    /\ edits < MaxEdits
    /\ \E style \in SpaceStyles :
          /\ ApplySpace(command.val, style) # command.val
          /\ command' = Str(ApplySpace(command.val, style))
    /\ pc' = "input"
    /\ edits' = edits + 1
    /\ UNCHANGED <<verdict, base, outsideRm>>

Next == Classify \/ Recase \/ Respace

Spec == Init /\ [][Next]_vars

(***************************************************************************)
(* Vocabulary of the properties: the words of a command as a shell user    *)
(* reads them, without regard to letter case.                              *)
(***************************************************************************)
Words(cmd) == Split(Lower(cmd.val))

Classified == pc = "classified" /\ IsStr(command)

HasChar(w, c) == \E i \in 1..Len(w) : w[i] = c

Contains(s, lit) == \E p \in 1..Len(s) : At(s, p, lit)

\* a word that begins with a hyphen
IsOption(w) == Len(w) >= 1 /\ w[1] = "-"

\* a hyphen followed by letters, as in -rf
IsCluster(w) == Len(w) >= 2 /\ w[1] = "-" /\ \A i \in 2..Len(w) : IsLowerLetter(w[i])

RecursiveWord(w) == (IsCluster(w) /\ HasChar(w, "r")) \/ w = L_recursive

ForceWord(w) == (IsCluster(w) /\ HasChar(w, "f")) \/ w = L_force

RorFCluster(w) == IsCluster(w) /\ (HasChar(w, "r") \/ HasChar(w, "f"))

HasRecursive(ws) == \E i \in 2..Len(ws) : RecursiveWord(ws[i])

HasForce(ws) == \E i \in 2..Len(ws) : ForceWord(ws[i])

BeginsWithRm(ws) == Len(ws) >= 1 /\ ws[1] = L_rm

LastWord(ws) == ws[Len(ws)]

\* the first word is echo and another follows, or the command begins with #
Exempt(ws) ==
    /\ Len(ws) >= 1
    /\ \/ ws[1] = <<"e","c","h","o">> /\ Len(ws) >= 2
       \/ ws[1][1] = "#"

\* ; & or | anywhere
HasChainChar(s) == \E i \in 1..Len(s) : s[i] \in {";", "&", "|"}

\* $( or a backquote anywhere
HasSubstitution(s) == Contains(s, <<"$","(">>) \/ HasChar(s, BQ)

HasNoPreserveRoot(cmd) == Contains(Lower(cmd.val), L_no_preserve_root)

\* the words after rm that are not options
TargetWords(ws) == {ws[i] : i \in {j \in 2..Len(ws) : ~IsOption(ws[j])}}

\* rm with its options and targets and nothing else
PlainRm(cmd) ==
    /\ BeginsWithRm(Words(cmd))
    /\ ~HasChainChar(cmd.val)
    /\ ~HasSubstitution(cmd.val)
    /\ ~HasNoPreserveRoot(cmd)

ReducedTargets == { <<"/">>, <<"~">>, <<".",".">>, <<".">>, <<"*">> }

ListedTargets ==
    ReducedTargets \cup
    { <<"/","*">>, <<"~","/">>, L_home, <<".",".","/",".",".">>, <<".","/">> }

\* C1: rm followed by white space, with a recursive and a force flag and a last
\* word /, ~, ., .. or *, is classified dangerous.
C1_RecursiveForceOnRootLike ==
    (/\ Classified
     /\ BeginsWithRm(Words(command))
     /\ HasRecursive(Words(command))
     /\ HasForce(Words(command))
     /\ LastWord(Words(command)) \in ReducedTargets)
    => verdict

C1_Witness ==
    /\ Classified
    /\ BeginsWithRm(Words(command))
    /\ HasRecursive(Words(command))
    /\ HasForce(Words(command))
    /\ LastWord(Words(command)) = <<"*">>
    /\ verdict

\* C2: a command whose normalized form starts with "echo " or "#" is classified
\* safe whatever follows, also --no-preserve-root or a chained rm -rf /.
C2_EchoAndCommentExempt ==
    (Classified /\ Exempt(Words(command))) => ~verdict

C2_Witness ==
    /\ Classified
    /\ Exempt(Words(command))
    /\ HasNoPreserveRoot(command) \/ Contains(Lower(command.val), <<";"," ","r","m"," ","-","r","f"," ","/">>)
    /\ ~verdict
    /\ edits > 0

BeginsListed(w) == StartsWith(w, <<"/","*">>) \/ StartsWith(w, <<".",".","/",".",".">>)

ChainedAfter(ws, j) ==
    \/ \E k \in (j + 1)..Len(ws) :
          \/ HasChar(ws[k], ";")
          \/ HasChar(ws[k], "|")
          \/ Contains(ws[k], <<"&","&">>)
    \/ Len(ws) > j /\ LastWord(ws)[Len(LastWord(ws))] = "&"

\* the word rm, later a flag cluster with r or f, and a chaining metacharacter after it
ChainedRm(ws) ==
    \E i \in 1..Len(ws) :
        /\ ws[i] = L_rm
        /\ \E j \in (i + 1)..Len(ws) : RorFCluster(ws[j]) /\ ChainedAfter(ws, j)

\* C4: a command, not exempted as echo or comment, with the word rm followed
\* by a flag cluster containing r or f and then by ; && || | or a final &,
\* is classified dangerous whatever the target.
C4_ChainedRmDangerous ==
    (Classified /\ ~Exempt(Words(command)) /\ ChainedRm(Words(command))) => verdict

C4_Witness ==
    /\ Classified
    /\ Words(command) = <<L_rm, <<"-","f">>, <<"x">>, <<"|">>, <<"l","s">>>>
    /\ verdict

\* a word that ends with rm right after the opening of a substitution, later a
\* flag cluster with r or f, and the closing of the substitution after it
SubstitutedRm(ws, open, close) ==
    \E i \in 1..Len(ws) :
        /\ EndsWith(ws[i], open \o L_rm)
        /\ \E j \in (i + 1)..Len(ws) :
              /\ RorFCluster(ws[j])
              /\ \E k \in (j + 1)..Len(ws) : HasChar(ws[k], close)

\* C5: a command, not exempted, in which $( ... ) or backquotes enclose an rm
\* with a recursive or force flag, is classified dangerous.
C5_SubstitutedRmDangerous ==
    (/\ Classified
     /\ ~Exempt(Words(command))
     /\ \/ SubstitutedRm(Words(command), <<"$","(">>, ")")
        \/ SubstitutedRm(Words(command), <<BQ>>, BQ))
    => verdict

C5_Witness ==
    /\ Classified
    /\ Words(command) = <<<<"l","s">>, <<"$","(","r","m">>, <<"-","r","f">>, <<"/">>, <<")">>>>
    /\ verdict

\* C6: a command that contains --no-preserve-root in any letter case and is
\* not exempted as echo or comment is classified dangerous, with or without rm.
C6_NoPreserveRootDangerous ==
    (Classified /\ HasNoPreserveRoot(command) /\ ~Exempt(Words(command))) => verdict

C6_Witness ==
    /\ Classified
    /\ HasNoPreserveRoot(command)
    /\ ~Contains(command.val, L_no_preserve_root)
    /\ ~Contains(Lower(command.val), L_rm)
    /\ verdict

\* C7 as stated: rm with a recursive flag and no force flag (no chaining,
\* substitution or --no-preserve-root) is classified dangerous exactly when
\* its last word is /, ~, .., . or *.
C7_RecursiveOnly ==
    (/\ Classified
     /\ PlainRm(command)
     /\ HasRecursive(Words(command))
     /\ ~HasForce(Words(command)))
    => (verdict <=> LastWord(Words(command)) \in ReducedTargets)

MetaChars == {";", "&", "|", "$", "(", ")", BQ}

\* C8: rm <path>, the path a specific file or subpath that is no root, home or
\* wildcard target, is classified safe.
C8_RmSpecificPathSafe ==
    (/\ Classified
     /\ Len(Words(command)) = 2
     /\ BeginsWithRm(Words(command))
     /\ ~IsOption(Words(command)[2])
     /\ \A c \in MetaChars : ~HasChar(Words(command)[2], c)
     /\ Words(command)[2] \notin { <<"/">>, <<"/","*">>, <<"~">>, <<"~","/">>, <<"*">> })
    => ~verdict

C8_Witness ==
    /\ Classified
    /\ Words(command) = <<L_rm, <<".",".","/",".",".","/","a","-","r","f">>>>
    /\ ~verdict

\* rm as a word of its own: no letter, digit or underscore before or after it
StandaloneRm(s) ==
    \E p \in 1..Len(s) :
        /\ At(s, p, L_rm)
        /\ ~IsWordAt(s, p - 1)
        /\ ~IsWordAt(s, p + 2)

\* C9 as stated: the empty string, None, a value that is no string, and a
\* command without rm as a word of its own and without --no-preserve-root
\* are classified safe.
C9_NonRmSafe ==
    (/\ pc = "classified"
     /\ \/ ~IsStr(command)
        \/ command.val = <<>>
        \/ ~StandaloneRm(Lower(command.val)) /\ ~HasNoPreserveRoot(command))
    => ~verdict

\* C10: commands that differ only in letter case and in the length or kind of
\* their white space runs get the same verdict.
C10_NormalizationInvariant ==
    pc = "classified" => VerdictName(verdict) = base

C10_Witness ==
    /\ pc = "classified"
    /\ edits > 0
    /\ verdict
    /\ command.val # Normalize(command.val)

(***************************************************************************)
(* The tool invocations the model assesses: Bash commands that pair a      *)
(* verb with a token, and the paths of the file tools.                     *)
(***************************************************************************)
AccessVerbs ==
    { <<"c","a","t">>, <<"l","e","s","s">>, <<"m","o","r","e">>, <<"h","e","a","d">>, <<"t","a","i","l">>, <<"g","r","e","p">>, <<"t","o","u","c","h">>,
      <<"c","p">>, <<"m","v">>, <<"r","m">>, <<"l","s">>, <<"r","m"," ","-","r","f">> }

AccessTokens ==
    { <<".","e","n","v">>, <<".","e","n","v",".","s","a","m","p","l","e">>, <<".","e","n","v",".","l","o","c","a","l">>, <<".","/",".","e","n","v">>, <<"p","r","o","j","e","c","t","/",".","e","n","v">>,
      <<".","e","n","v","r","c">>, <<"x">>, <<"/">> }

\* what separates the verb from the token
Separators == { <<" ">>, <<" ","x"," ">> }

Redirections == { <<"e","c","h","o"," ","x"," ",">"," ">>, <<"e","c","h","o"," ","x"," ",">">>, <<"e","c","h","o"," ","x"," ",">",">"," ">> }

AccessSuffixes ==
    { <<>>, <<" ","b">>, <<" ",";"," ","r","m"," ","-","r","f"," ","/">>, <<" ","|"," ","l","s">>, <<" ","$","(","l","s",")">>, <<" ",BQ,"l","s",BQ>>, <<" ","$","{","x","}">>,
      <<" ","&","&"," ","l","s">>, <<" ","|","|"," ","l","s">>, <<" ","&">> }

AccessCommands ==
    { v \o s \o t \o x :
        v \in AccessVerbs, s \in Separators, t \in AccessTokens, x \in AccessSuffixes }
    \cup { r \o t \o x : r \in Redirections, t \in AccessTokens, x \in AccessSuffixes }

FilePaths ==
    { <<".","e","n","v">>, <<"p","r","o","j","e","c","t","/",".","e","n","v">>, <<"/","p","a","t","h","/","t","o","/",".","e","n","v">>, <<"c","o","n","f","i","g",".","e","n","v">>, <<".","e","n","v",".","l","o","c","a","l">>,
      <<".","e","n","v",".","s","a","m","p","l","e">>, <<"/","p","a","t","h","/","t","o","/",".","e","n","v",".","s","a","m","p","l","e">>, <<".","e","n","v","/",".","e","n","v",".","s","a","m","p","l","e">>,
      <<".","e","n","v",".","s","a","m","p","l","e",".","b","a","k">>, <<".","E","N","V">>, <<"c","o","n","f","i","g",".","j","s","o","n">>,
      <<".","/","p","r","o","j","e","c","t","/","f","i","l","e",".","t","x","t">>, <<"r","e","l","a","t","i","v","e","/","p","a","t","h",".","j","s","o","n">>, <<"f","i","l","e",".","p","y">>, <<".","/">>,
      <<"/","t","m","p","/","t","e","m","p","f","i","l","e">>, <<"/","v","a","r","/","t","m","p","/","t","e","m","p",".","l","o","g">>,
      <<"/","e","t","c","/","p","a","s","s","w","d">>, <<"/","e","t","c","/",".","e","n","v">>, <<"/","e","t","c","/",".","e","n","v",".","s","a","m","p","l","e">>, <<"/","e","t","c","e","t","e","r","a">>,
      <<"/","b","i","n","/","s","h">>, <<"/","s","b","i","n","/","i","n","i","t">>, <<"/","u","s","r","/","b","i","n","/","s","u","d","o">>, <<"/","u","s","r","/","l","o","c","a","l","/","x">>,
      <<"/","r","o","o","t","/",".","b","a","s","h","r","c">>, <<"/","h","o","m","e","/","u","s","e","r","/",".","s","s","h","/","i","d","_","r","s","a">>, <<"/","h","o","m","e","/","u","s","e","r","/",".","e","n","v",".","s","a","m","p","l","e">>,
      <<"/","h","o","m","e","/","u","s","e","r","/","p","r","o","j","e","c","t","/","f","i","l","e",".","t","x","t">>, <<"/","h","o","m","e","/","/",".","x">>,
      <<".",".","/",".",".","/",".",".","/","e","t","c","/","p","a","s","s","w","d">>, <<".",".","/","s","e","c","r","e","t">>, <<".",".","/","a","/","b">>, <<"/","t","m","p","/",".",".","/","e","t","c","/","p","a","s","s","w","d">>,
      <<".","/",".",".","/","e","t","c","/","p","a","s","s","w","d">>, <<"/","c","u","s","t","o","m","/","f","i","l","e",".","t","x","t">>, <<>> }

\* parameter values that are not strings, and the absent parameter
OddValues == { Missing, NoneValue, IntValue(TRUE) }

\* parameter mappings that any tool may be called with
AnyInputs ==
    { NotADict }
    \cup { Dict(c, f) :
             c \in { Str(<<"r","m"," ","-","r","f"," ","/">>), Str(<<"c","a","t"," ",".","e","n","v">>), Str(<<"l","s",";"," ","l","s">>) } \cup OddValues,
             f \in { Str(<<".","e","n","v">>), Str(<<"/","e","t","c","/","p","a","s","s","w","d">>), Str(<<"f","i","l","e",".","p","y">>) } \cup OddValues }

\* the commands of the examples of detect_command_injection_patterns, and
\* one with a pipe and a ||
ExampleCommands ==
    { <<"l","s",";"," ","r","m"," ","-","r","f"," ","/">>,
      <<"l","s"," ","$","(","d","a","n","g","e","r","o","u","s","_","c","o","m","m","a","n","d",")">>,
      <<"l","s">>,
      <<"l","s"," ","|"," ","c","a","t"," ","|","|"," ","l","s">> }

BashInputs == { Dict(Str(c), Missing) : c \in AccessCommands \cup ExampleCommands }

FileInputs == { Dict(Missing, Str(f)) : f \in FilePaths }

OtherTools == { "Grep", "WebFetch", "bash", "" }

Tools == {"Bash"} \cup FileTools \cup OtherTools

Call(tool_name, tool_input) == [tool_name |-> tool_name, tool_input |-> tool_input]

Calls ==
    { Call(t, i) : t \in Tools, i \in AnyInputs }
    \cup { Call("Bash", i) : i \in BashInputs }
    \cup { Call(t, i) : t \in FileTools, i \in FileInputs }

\* the longest custom allow list
MaxAllow == 1

CustomPatterns ==
    { Pattern(<<"/","c","u","s","t","o","m","/">>, <<>>), Pattern(<<"/","e","t","c","/">>, <<>>),
      Pattern(<<"/","h","o","m","e","/">>, <<>>), Pattern(<<".",".","/">>, <<>>), Pattern(<<>>, <<>>) }

RECURSIVE Lists(_, _)
Lists(S, n) ==
    IF n = 0
    THEN { <<>> }
    ELSE Lists(S, n - 1) \cup { <<e>> \o l : e \in S, l \in Lists(S, n - 1) }

AllowLists == { NoAllowList } \cup { AllowList(l) : l \in Lists(CustomPatterns, MaxAllow) }

(***************************************************************************)
(* The state machine of a tool invocation: the hook's caller holds one     *)
(* invocation and calls the functions of the module on it, each once, in   *)
(* any order.                                                              *)
(***************************************************************************)
NoRmCall ==
    /\ command = NoneValue
    /\ pc = "tool"
    /\ verdict = FALSE
    /\ base = "none"
    /\ edits = 0

InitAssess ==
    /\ NoRmCall
    /\ \E call \in Calls :
          /\ tool = call.tool_name
          /\ input = call.tool_input
    /\ env_access = Pending
    /\ injection = NotDetected
    /\ path_check = NotValidated
    /\ assessment = Pending
    /\ again = NotRepeated
    /\ NoGate
    /\ NoHooks
    /\ NoMocks

\* is_env_file_access(tool_name, tool_input)
CheckEnv ==
    /\ pc = "tool"
    /\ env_access.raised = "pending"
    /\ env_access' = is_env_file_access(tool, input)
    /\ UNCHANGED <<outsideTool, tool, input, injection, path_check, assessment>>

\* detect_command_injection_patterns(command) on the command of a Bash call
DetectInjection ==
    /\ pc = "tool"
    /\ tool = "Bash"
    /\ input.isdict
    /\ ~injection.done
    /\ injection' = [done |-> TRUE,
                     names |-> detect_command_injection_patterns(GetOrEmpty(input.command))]
    /\ UNCHANGED <<outsideTool, tool, input, env_access, path_check, assessment>>

\* validate_file_path_access(file_path, allowed_patterns) on the path of a
\* file tool call
ValidatePath ==
    /\ pc = "tool"
    /\ tool \in FileTools
    /\ input.isdict
    /\ IsStr(GetOrEmpty(input.file_path))
    /\ ~path_check.done
    /\ \E allowed_patterns \in AllowLists :
          path_check' =
              [done |-> TRUE, allowed_patterns |-> allowed_patterns,
               value |-> validate_file_path_access(GetOrEmpty(input.file_path).val,
                                                   allowed_patterns)]
    /\ UNCHANGED <<outsideTool, tool, input, env_access, injection, assessment>>

\* get_safety_assessment(tool_name, tool_input)
Assess ==
    /\ pc = "tool"
    /\ assessment.raised = "pending"
    /\ assessment' = get_safety_assessment(tool, input)
    /\ UNCHANGED <<outsideTool, tool, input, env_access, injection, path_check>>

NextAssess == CheckEnv \/ DetectInjection \/ ValidatePath \/ Assess

SpecAssess == InitAssess /\ [][NextAssess]_vars

(***************************************************************************)
(* Vocabulary of the properties of a tool invocation.                      *)
(***************************************************************************)
\* the function has returned a value (it has not raised)
Returned(result) == result.raised = "none"

\* a file tool is called with a string for file_path (an absent file_path
\* reads as the empty string)
FileCall == tool \in FileTools /\ input.isdict /\ IsStr(GetOrEmpty(input.file_path))

path == GetOrEmpty(input.file_path).val

\* a Bash call with a string for command
BashCall == tool = "Bash" /\ input.isdict /\ IsStr(GetOrEmpty(input.command))

cmdline == GetOrEmpty(input.command).val

PathIs(lit) == path = lit

(***************************************************************************)
(* C11: for the file tools Read, Edit, MultiEdit and Write,                *)
(* is_env_file_access returns True if and only if file_path contains the   *)
(* substring .env and does not end with .env.sample; a path ending in      *)
(* .env.sample is never blocked, also when .env occurs earlier in it, and  *)
(* .env, project/.env, config.env and .env.local are always blocked.       *)
(***************************************************************************)
C11_FileToolEnvAccess ==
    (FileCall /\ Returned(env_access)) =>
        /\ env_access.value <=>
              (Contains(path, <<".","e","n","v">>) /\ ~EndsWith(path, <<".","e","n","v",".","s","a","m","p","l","e">>))
        /\ EndsWith(path, <<".","e","n","v",".","s","a","m","p","l","e">>) => ~env_access.value
        /\ (PathIs(<<".","e","n","v">>) \/ PathIs(<<"p","r","o","j","e","c","t","/",".","e","n","v">>)
              \/ PathIs(<<"c","o","n","f","i","g",".","e","n","v">>) \/ PathIs(<<".","e","n","v",".","l","o","c","a","l">>)) => env_access.value

\* a path that ends in .env.sample and has .env earlier has been let through
C11_Witness ==
    /\ FileCall
    /\ Returned(env_access)
    /\ PathIs(<<".","e","n","v","/",".","e","n","v",".","s","a","m","p","l","e">>)
    /\ ~env_access.value

\* the words of the command line, as the shell splits them
Argv == Split(cmdline)

SpecVerbs ==
    { <<"c","a","t">>, <<"l","e","s","s">>, <<"m","o","r","e">>, <<"h","e","a","d">>, <<"t","a","i","l">>, <<"g","r","e","p">>, <<"t","o","u","c","h">>,
      <<"c","p">>, <<"m","v">>, <<"r","m">> }

\* one of the verbs is followed by a word that satisfies the test
VerbWith(ws, verbs, token) ==
    \E i \in 1..(Len(ws) - 1) : ws[i] \in verbs /\ ws[i + 1] = token

\* echo ... > token  or  echo ... >token
EchoInto(ws, token) ==
    \E i \in 1..Len(ws) : \E j \in (i + 1)..Len(ws) :
        /\ ws[i] = <<"e","c","h","o">>
        /\ \/ ws[j] = <<">">> \o token
           \/ ws[j] = <<">">> /\ j < Len(ws) /\ ws[j + 1] = token

EnvFiles == { <<".","e","n","v">>, <<".","/",".","e","n","v">>, <<"p","r","o","j","e","c","t","/",".","e","n","v">> }

(***************************************************************************)
(* C12: for the Bash tool, is_env_file_access returns True for every       *)
(* command that pairs one of the verbs cat, less, more, head, tail, grep,  *)
(* touch, cp, mv, rm, or an echo ... > redirection, with a token that ends *)
(* in .env, both for the bare token .env and for one with a directory      *)
(* prefix such as ./.env or project/.env.                                  *)
(***************************************************************************)
C12_BashEnvAccess ==
    (BashCall /\ Returned(env_access)) =>
        \A token \in EnvFiles :
            (VerbWith(Argv, SpecVerbs, token) \/ EchoInto(Argv, token))
                => env_access.value

CodeVerbs == { <<"c","a","t">>, <<"l","e","s","s">>, <<"h","e","a","d">>, <<"t","a","i","l">>, <<"g","r","e","p">>, <<"t","o","u","c","h">>, <<"r","m">> }

(***************************************************************************)
(* C13: the env-access check exempts only .env.sample: for the Bash tool   *)
(* as for the file tools, access to .env.local (for example                *)
(* cat .env.local) is blocked.                                             *)
(***************************************************************************)
C13_OnlySampleExempt ==
    /\ (FileCall /\ Returned(env_access) /\ PathIs(<<".","e","n","v",".","l","o","c","a","l">>)) => env_access.value
    /\ (BashCall /\ Returned(env_access)
          /\ (VerbWith(Argv, CodeVerbs, <<".","e","n","v",".","l","o","c","a","l">>) \/ EchoInto(Argv, <<".","e","n","v",".","l","o","c","a","l">>)))
         => env_access.value

EnvReason == "Access to .env files containing sensitive data is prohibited"

RmReason == "Dangerous rm command detected"

\* both the .env check and the assessment of the invocation have returned
BothReturned == Returned(env_access) /\ Returned(assessment)

\* the invocation is a Bash command that the rm check classifies dangerous
DangerousRm ==
    tool = "Bash" /\ input.isdict /\ is_dangerous_rm_command(GetOrEmpty(input.command))

(***************************************************************************)
(* C14: the first matching check wins.  Whenever the env-access check      *)
(* matches, get_safety_assessment returns blocked with the reason 'Access  *)
(* to .env files containing sensitive data is prohibited' and the single   *)
(* category env_file_access, also when the same Bash command is a          *)
(* dangerous rm or the same path is rejected by the path check; the reason *)
(* 'Dangerous rm command detected' is returned only when the env check did *)
(* not match.                                                              *)
(***************************************************************************)
C14_EnvCheckFirst ==
    BothReturned =>
        /\ env_access.value =>
              /\ assessment.value.blocked
              /\ ~assessment.value.reason.none
              /\ assessment.value.reason.text = EnvReason
              /\ assessment.value.patterns_detected = <<"env_file_access">>
        /\ (~assessment.value.reason.none /\ assessment.value.reason.text = RmReason)
              => ~env_access.value

\* a command that reads .env and is a dangerous rm has been assessed
C14_Witness ==
    /\ BothReturned
    /\ env_access.value
    /\ DangerousRm
    /\ assessment.value.patterns_detected = <<"env_file_access">>

\* the command opens a construct and closes it further on
Opened(opening, closing) ==
    \E i \in 1..Len(cmdline), j \in 1..Len(cmdline) :
        /\ \A k \in 1..Len(opening) :
              i + k - 1 <= Len(cmdline) /\ cmdline[i + k - 1] = opening[k]
        /\ j >= i + Len(opening)
        /\ cmdline[j] = closing

\* the command holds one of the constructs the injection scan looks for
HasInjectionConstruct ==
    \/ Contains(cmdline, <<";">>)
    \/ Contains(cmdline, <<"&","&">>)
    \/ Contains(cmdline, <<"|">>)
    \/ Opened(<<"$","(">>, ")")
    \/ Opened(<<BQ>>, BQ)
    \/ Opened(<<"$","{">>, "}")

(***************************************************************************)
(* C15: injection patterns never block by themselves.  For every Bash      *)
(* invocation get_safety_assessment returns blocked = True if and only if  *)
(* the env-access check or the dangerous-rm check matches; a command with  *)
(* ;, &&, ||, a pipe, $(), backticks or ${...} that matches neither check  *)
(* is allowed, with the detected categories in patterns_detected and one   *)
(* entry in warnings.                                                      *)
(***************************************************************************)
C15_InjectionNeverBlocks ==
    (BashCall /\ BothReturned) =>
        /\ assessment.value.blocked <=> (env_access.value \/ DangerousRm)
        /\ (HasInjectionConstruct /\ ~env_access.value /\ ~DangerousRm) =>
              /\ ~assessment.value.blocked
              /\ assessment.value.reason.none
              /\ Len(assessment.value.warnings) = 1
              /\ assessment.value.patterns_detected # <<>>
              /\ injection.done => assessment.value.patterns_detected = injection.names

\* a command with a substitution has been allowed with a warning
C15_Witness ==
    /\ BashCall
    /\ BothReturned
    /\ injection.done
    /\ Contains(cmdline, <<"$","(","l","s",")">>)
    /\ ~assessment.value.blocked
    /\ Len(assessment.value.warnings) = 1
    /\ assessment.value.patterns_detected = injection.names

\* the path lies under one of the system directories
UnderSystemDir(p) ==
    \/ StartsWith(p, <<"/","e","t","c","/">>)
    \/ StartsWith(p, <<"/","b","i","n","/">>)
    \/ StartsWith(p, <<"/","s","b","i","n","/">>)
    \/ StartsWith(p, <<"/","u","s","r","/","b","i","n","/">>)
    \/ StartsWith(p, <<"/","r","o","o","t","/">>)

\* /home/<user>/.<name>: the path names a hidden file of a user's home
HiddenUnderHome(p) ==
    /\ StartsWith(p, <<"/","h","o","m","e","/">>)
    /\ \E k \in 8..(Len(p) - 1) :
          /\ p[k] = "/"
          /\ p[k + 1] = "."
          /\ \A j \in 7..(k - 1) : p[j] # "/"

\* the path begins with ../ and goes on into a directory
LeadingTraversal(p) ==
    StartsWith(p, <<".",".","/">>) /\ \E k \in 4..Len(p) : p[k] = "/"

MatchesDeny(p) == UnderSystemDir(p) \/ HiddenUnderHome(p) \/ LeadingTraversal(p)

\* the default allow patterns: a relative path, or one under /tmp/ or /var/tmp/
MatchesAllow(p) ==
    \/ Len(p) >= 1 /\ p[1] # "/"
    \/ StartsWith(p, <<"/","t","m","p","/">>)
    \/ StartsWith(p, <<"/","v","a","r","/","t","m","p","/">>)

\* a file tool call that is not an env-file access has been assessed
FileAssessed == FileCall /\ BothReturned /\ ~env_access.value

(***************************************************************************)
(* C16 as stated: for a file tool whose path is not an env-file access,    *)
(* get_safety_assessment blocks the invocation exactly when the path       *)
(* matches a deny pattern and matches no allow pattern; a path that        *)
(* matches no deny pattern is allowed.                                     *)
(***************************************************************************)
C16_Original ==
    FileAssessed =>
        (assessment.value.blocked <=> (MatchesDeny(path) /\ ~MatchesAllow(path)))

(***************************************************************************)
(* C16: for a file tool whose path is not an env-file access,              *)
(* get_safety_assessment blocks the invocation exactly when the path is    *)
(* not empty and matches a deny pattern or matches no allow pattern; it    *)
(* then gives the category unsafe_file_access and a reason that names the  *)
(* path.  A path that matches a deny pattern is blocked also when it       *)
(* matches an allow pattern, and an absolute path outside /tmp/ and        *)
(* /var/tmp/ is blocked although it matches no deny pattern.               *)
(***************************************************************************)
C16_DenyOrNotAllowed ==
    FileAssessed =>
        /\ assessment.value.blocked <=>
              (path # <<>> /\ (MatchesDeny(path) \/ ~MatchesAllow(path)))
        /\ assessment.value.blocked =>
              /\ assessment.value.patterns_detected = <<"unsafe_file_access">>
              /\ assessment.value.reason.path = path

\* an absolute project path, which no deny pattern matches, has been blocked
C16_Witness ==
    /\ FileAssessed
    /\ PathIs(<<"/","h","o","m","e","/","u","s","e","r","/","p","r","o","j","e","c","t","/","f","i","l","e",".","t","x","t">>)
    /\ ~MatchesDeny(path)
    /\ assessment.value.blocked

(***************************************************************************)
(* C17: deny patterns take precedence in validate_file_path_access: for    *)
(* every path under /etc/, /bin/, /sbin/, /usr/bin/, /root/, or naming a   *)
(* hidden file under /home/<user>/, the function returns False for every   *)
(* value of allowed_patterns, also for a custom allow list whose patterns  *)
(* match that same path.                                                   *)
(***************************************************************************)
C17_DenyPrecedence ==
    (path_check.done /\ (UnderSystemDir(path) \/ HiddenUnderHome(path)))
        => ~path_check.value

\* a path under /etc/ has been refused under a custom allow list that
\* matches it
C17_Witness ==
    /\ path_check.done
    /\ UnderSystemDir(path)
    /\ ~path_check.allowed_patterns.isnone
    /\ AnyMatches(path, path_check.allowed_patterns.patterns)
    /\ ~path_check.value

(***************************************************************************)
(* C18: path-traversal sequences are denied: validate_file_path_access     *)
(* returns False for every path that contains a ../ traversal sequence     *)
(* (for example ../../../etc/passwd, ../secret, /tmp/../etc/passwd).       *)
(***************************************************************************)
C18_TraversalDenied ==
    (path_check.done /\ Contains(path, <<".",".","/">>)) => ~path_check.value

\* the call of the function has ended, with a value or with an exception
Ended(result) == result.raised # "pending"

OtherTool == tool \notin ({"Bash"} \cup FileTools)

(***************************************************************************)
(* C19: for every tool name outside {Bash, Read, Edit, MultiEdit, Write}   *)
(* and every parameter mapping (also one with file_path = .env or          *)
(* command = rm -rf /), is_env_file_access returns False and               *)
(* get_safety_assessment returns blocked = False with reason None, no      *)
(* warnings and no detected patterns.                                      *)
(***************************************************************************)
C19_OtherToolsNotBlocked ==
    OtherTool =>
        /\ Ended(env_access) => (Returned(env_access) /\ ~env_access.value)
        /\ Ended(assessment) =>
              /\ Returned(assessment)
              /\ ~assessment.value.blocked
              /\ assessment.value.reason.none
              /\ assessment.value.warnings = <<>>
              /\ assessment.value.patterns_detected = <<>>

\* a tool outside the set has been assessed with file_path = .env and
\* command = rm -rf /
C19_Witness ==
    /\ tool = "Grep"
    /\ input.isdict
    /\ input.file_path = Str(<<".","e","n","v">>)
    /\ input.command = Str(<<"r","m"," ","-","r","f"," ","/">>)
    /\ BothReturned
    /\ ~assessment.value.blocked

PathReason == "File path access not allowed: "

\* the category of a blocked verdict goes with its reason
CategoryMatchesReason(v) ==
    \/ /\ v.patterns_detected = <<"env_file_access">>
       /\ v.reason.text = EnvReason
       /\ v.reason.path = <<>>
    \/ /\ v.patterns_detected = <<"dangerous_rm">>
       /\ v.reason.text = RmReason
       /\ v.reason.path = <<>>
    \/ /\ v.patterns_detected = <<"unsafe_file_access">>
       /\ v.reason.text = PathReason
       /\ v.reason.path = path

(***************************************************************************)
(* C20: every verdict returned by get_safety_assessment is well-formed:    *)
(* reason is None if and only if blocked is False; a blocked verdict       *)
(* carries exactly one category in patterns_detected (env_file_access,     *)
(* dangerous_rm or unsafe_file_access, matching its reason) and an empty   *)
(* warnings list; warnings is non-empty only for an allowed Bash command   *)
(* in which an injection pattern was detected.                             *)
(***************************************************************************)
C20_VerdictWellFormed ==
    Returned(assessment) =>
        /\ assessment.value.tool_name = tool
        /\ assessment.value.reason.none <=> ~assessment.value.blocked
        /\ assessment.value.blocked =>
              /\ CategoryMatchesReason(assessment.value)
              /\ assessment.value.warnings = <<>>
        /\ assessment.value.warnings # <<>> =>
              /\ ~assessment.value.blocked
              /\ BashCall
              /\ HasInjectionConstruct
              /\ assessment.value.patterns_detected # <<>>
              /\ injection.done => injection.names # <<>>

\* a file tool call has been blocked for its path, with the reason naming it
C20_Witness ==
    /\ Returned(assessment)
    /\ assessment.value.blocked
    /\ assessment.value.patterns_detected = <<"unsafe_file_access">>
    /\ assessment.value.reason.path = path
    /\ path # <<>>

(***************************************************************************)
(* The state machine of a repeated assessment: the caller assesses an      *)
(* invocation, calls the other functions in between, and assesses it once  *)
(* more, as it is or with another value for a parameter that the tool      *)
(* does not use.                                                           *)
(***************************************************************************)
PureCalls == { Call(t, i) : t \in Tools, i \in AnyInputs }

\* values for a parameter the tool does not use
OtherValues == { Missing, NoneValue, Str(<<".","e","n","v">>), Str(<<"r","m"," ","-","r","f"," ","/">>), Str(<<"/","e","t","c","/","p","a","s","s","w","d">>) }

\* the same invocation, with any value for the parameters other than
\* command (Bash) and file_path (file tools)
Variants(tool_name, tool_input) ==
    IF ~tool_input.isdict
    THEN { tool_input }
    ELSE IF tool_name = "Bash"
    THEN { Dict(tool_input.command, f) : f \in OtherValues \cup {tool_input.file_path} }
    ELSE IF tool_name \in FileTools
    THEN { Dict(c, tool_input.file_path) : c \in OtherValues \cup {tool_input.command} }
    ELSE { Dict(c, f) : c \in OtherValues \cup {tool_input.command},
                        f \in {Missing, Str(<<".","e","n","v">>), tool_input.file_path} }

InitPure ==
    /\ NoRmCall
    /\ \E call \in PureCalls :
          /\ tool = call.tool_name
          /\ input = call.tool_input
    /\ env_access = Pending
    /\ injection = NotDetected
    /\ path_check = NotValidated
    /\ assessment = Pending
    /\ again = NotRepeated
    /\ NoGate
    /\ NoHooks
    /\ NoMocks

\* get_safety_assessment(tool_name, tool_input) once more
AssessAgain ==
    /\ pc = "tool"
    /\ assessment.raised # "pending"
    /\ ~again.done
    /\ \E tool_input \in Variants(tool, input) :
          again' = [done |-> TRUE, tool_input |-> tool_input,
                    result |-> get_safety_assessment(tool, tool_input)]
    /\ UNCHANGED <<outsidePure, toolVars>>

NextPure == Assess \/ AssessAgain \/ CheckEnv \/ DetectInjection \/ ValidatePath

SpecPure == InitPure /\ [][NextPure]_vars

\* the two calls ended the same way: the same verdict, or the same exception
SameOutcome(a, b) == a.raised = b.raised /\ (a.raised = "none" => a.value = b.value)

(***************************************************************************)
(* C21: the verdict of get_safety_assessment depends only on tool_name and *)
(* on command (for Bash) or file_path (for the file tools): repeating a    *)
(* call, interleaving it with other calls, or changing any other parameter *)
(* of the invocation (also a file_path on a Bash call or a command on a    *)
(* file-tool call) never changes the verdict.                              *)
(***************************************************************************)
C21_PureFunction == again.done => SameOutcome(again.result, assessment)

\* an allowed Bash command has been assessed again with file_path = .env
\* after the other functions were called
C21_Witness ==
    /\ again.done
    /\ tool = "Bash"
    /\ Returned(assessment)
    /\ input.file_path = Missing
    /\ again.tool_input.file_path = Str(<<".","e","n","v">>)
    /\ ~assessment.value.blocked
    /\ Returned(env_access)
    /\ injection.done

(***************************************************************************)
(* C22: classifier errors are never propagated: for every tool_name and    *)
(* every tool_input, also a command or file_path that is None or not a     *)
(* string and a tool_input that is not a mapping, get_safety_assessment    *)
(* and is_env_file_access return a verdict without raising.                *)
(***************************************************************************)
C22_NeverRaises ==
    /\ Ended(env_access) => Returned(env_access)
    /\ Ended(assessment) => Returned(assessment)

(***************************************************************************)
(* The invocation gate: a single-shot process that reads one JSON object   *)
(* from standard input, asks the filter for its verdict and turns it into  *)
(* an exit code and a message on standard error.  The hook script itself   *)
(* is not among the sources; the gate follows its description.             *)
(***************************************************************************)
GateInputs ==
    { NotJson }
    \cup { JsonObject({"tool_name", "tool_input"}, c.tool_name, c.tool_input) :
             c \in PureCalls }
    \cup { JsonObject({"tool_name"}, t, NotADict) : t \in Tools }
    \cup { JsonObject({"tool_input"}, "", i) : i \in AnyInputs }
    \cup { JsonObject({}, "", NotADict) }

\* variant: an exception of the filter blocks the invocation
ExitOf_error_blocks(outcome) ==
    IF outcome.raised = "none" /\ outcome.value.blocked
    THEN [exit_code |-> 2,
          stderr |-> <<[prefix |-> "BLOCKED: ", reason |-> outcome.value.reason]>>]
    ELSE IF outcome.raised # "none"
    THEN [exit_code |-> 2, stderr |-> <<>>]
    ELSE [exit_code |-> 0, stderr |-> <<>>]

\* exit code and diagnostic of a verdict: 2 and a message when blocking,
\* 0 when allowing and when the filter failed
ExitOf(outcome) ==
    IF outcome.raised = "none" /\ outcome.value.blocked
    THEN [exit_code |-> 2,
          stderr |-> <<[prefix |-> "BLOCKED: ", reason |-> outcome.value.reason]>>]
    ELSE [exit_code |-> 0, stderr |-> <<>>]

InitGate ==
    /\ NoRmCall
    /\ tool = ""
    /\ input = NotADict
    /\ env_access = Pending
    /\ injection = NotDetected
    /\ path_check = NotValidated
    /\ assessment = Pending
    /\ again = NotRepeated
    /\ stdin \in GateInputs
    /\ gate = GateStart
    /\ NoHooks
    /\ NoMocks

\* one read of standard input: text that is not JSON, or an object without
\* tool_name or tool_input, ends the process with exit code 0
GateRead ==
    /\ pc = "tool"
    /\ gate.pc = "start"
    /\ gate' = IF stdin.json /\ stdin.fields = {"tool_name", "tool_input"}
               THEN [gate EXCEPT !.pc = "parsed", !.tool_name = stdin.tool_name,
                                 !.tool_input = stdin.tool_input]
               ELSE [gate EXCEPT !.pc = "exited", !.exit_code = 0]
    /\ UNCHANGED <<outsideGate, stdin>>

\* one evaluation by the filter
GateEvaluate ==
    /\ gate.pc = "parsed"
    /\ gate' = [gate EXCEPT !.pc = "evaluated",
                            !.outcome = get_safety_assessment(gate.tool_name,
                                                              gate.tool_input)]
    /\ UNCHANGED <<outsideGate, stdin>>

\* the verdict becomes the exit code
GateExit ==
    /\ gate.pc = "evaluated"
    /\ gate' = [gate EXCEPT !.pc = "exited",
                            !.exit_code = ExitOf(gate.outcome).exit_code,
                            !.stderr = ExitOf(gate.outcome).stderr]
    /\ UNCHANGED <<outsideGate, stdin>>

NextGate == GateRead \/ GateEvaluate \/ GateExit

SpecGate == InitGate /\ [][NextGate]_vars

\* the filter blocks the invocation that standard input describes
FilterBlocks ==
    /\ stdin.json
    /\ stdin.fields = {"tool_name", "tool_input"}
    /\ Returned(get_safety_assessment(stdin.tool_name, stdin.tool_input))
    /\ get_safety_assessment(stdin.tool_name, stdin.tool_input).value.blocked

NumHooks == 2

HookIds == 1..NumHooks

\* input_data = json.load(sys.stdin), or the error record of the except branch
InputData(valid, id) == [error |-> ~valid, call |-> IF valid THEN id ELSE 0]

\* the entry that calls.append adds
Entry(input_data) == [hook |-> "pre_tool_use", input |-> input_data]

HookStart(valid) == [pc |-> "exists", valid |-> valid, calls |-> <<>>, exit_code |-> -1]

InitLog ==
    /\ NoRmCall
    /\ NoToolCall
    /\ NoGate
    /\ NoMocks
    /\ call_log = NoFile
    /\ hooks \in [HookIds -> { HookStart(valid) : valid \in BOOLEAN }]

\* if call_log.exists():
LogExists(p) ==
    /\ hooks[p].pc = "exists"
    /\ hooks' = [hooks EXCEPT ![p].pc = IF call_log.exists THEN "load" ELSE "stdin"]
    /\ UNCHANGED <<outsideLog, call_log>>

\* with open(call_log) as f: calls = json.load(f); a text that is not JSON
\* raises and ends the process
LogLoad(p) ==
    /\ hooks[p].pc = "load"
    /\ hooks' = IF call_log.json
                THEN [hooks EXCEPT ![p].pc = "stdin", ![p].calls = call_log.calls]
                ELSE [hooks EXCEPT ![p].pc = "done", ![p].exit_code = 1]
    /\ UNCHANGED <<outsideLog, call_log>>

\* input_data = json.load(sys.stdin) and calls.append(...)
LogAppend(p) ==
    /\ hooks[p].pc = "stdin"
    /\ hooks' = [hooks EXCEPT ![p].pc = "open",
                              ![p].calls = Append(hooks[p].calls,
                                                  Entry(InputData(hooks[p].valid, p)))]
    /\ UNCHANGED <<outsideLog, call_log>>

\* open(call_log, "w") empties the file
LogOpen(p) ==
    /\ hooks[p].pc = "open"
    /\ call_log' = EmptyFile
    /\ hooks' = [hooks EXCEPT ![p].pc = "dump"]
    /\ UNCHANGED outsideLog

\* json.dump(calls, f) writes from the start of the file; a longer text that
\* another process wrote in the meantime keeps its tail
LogDump(p) ==
    /\ hooks[p].pc = "dump"
    /\ call_log' = IF Len(call_log.calls) > Len(hooks[p].calls)
                   THEN EmptyFile
                   ELSE JsonFile(hooks[p].calls)
    /\ hooks' = [hooks EXCEPT ![p].pc = "exit"]
    /\ UNCHANGED outsideLog

\* sys.exit(return_code)
LogExit(p) ==
    /\ hooks[p].pc = "exit"
    /\ hooks' = [hooks EXCEPT ![p].pc = "done", ![p].exit_code = 0]
    /\ UNCHANGED <<outsideLog, call_log>>

NextLog ==
    \E p \in HookIds :
        LogExists(p) \/ LogLoad(p) \/ LogAppend(p) \/ LogOpen(p) \/ LogDump(p) \/ LogExit(p)

SpecLog == InitLog /\ [][NextLog]_vars

AllHooksDone == \A p \in HookIds : hooks[p].pc = "done"

(***************************************************************************)
(* C24: every evaluated invocation is appended to the JSON-array log:      *)
(* after any set of hook invocations, also ones whose executions overlap   *)
(* in time, the log contains one entry per invocation and no entry that    *)
(* was already written is lost or overwritten.                             *)
(***************************************************************************)
C24_EveryCallLogged ==
    AllHooksDone =>
        /\ call_log.json
        /\ Len(call_log.calls) = NumHooks
        /\ \A p \in HookIds : hooks[p].valid =>
              \E i \in 1..Len(call_log.calls) : call_log.calls[i].input.call = p

\* the injection scan has run on the command of a Bash call
Scanned == BashCall /\ injection.done

Reported(name) == \E i \in 1..Len(injection.names) : injection.names[i] = name

(***************************************************************************)
(* C25: detect_command_injection_patterns returns the category names its   *)
(* documentation gives: ['command_chaining'] for `ls; rm -rf /`,           *)
(* ['command_substitution'] for `ls $(dangerous_command)`, and [] for `ls`.*)
(***************************************************************************)
C25_DocumentedNames ==
    Scanned =>
        /\ cmdline = <<"l","s",";"," ","r","m"," ","-","r","f"," ","/">> => injection.names = <<"command_chaining">>
        /\ cmdline = <<"l","s"," ","$","(","d","a","n","g","e","r","o","u","s","_","c","o","m","m","a","n","d",")">>
              => injection.names = <<"command_substitution">>
        /\ cmdline = <<"l","s">> => injection.names = <<>>

\* a | that has no | next to it
SinglePipe(s) ==
    \E p \in 1..Len(s) :
        /\ s[p] = "|"
        /\ p = 1 \/ s[p - 1] # "|"
        /\ p = Len(s) \/ s[p + 1] # "|"

\* open ... close, with no close in between
Pair(s, open, close) ==
    \E p \in 1..Len(s) : \E q \in (p + Len(open))..Len(s) :
        At(s, p, open) /\ s[q] = close

(***************************************************************************)
(* C26: detect_command_injection_patterns reports every injection          *)
(* construct present in the command: command_chaining_semicolon for a ;,   *)
(* command_chaining_and for &&, command_chaining_or for ||, pipe_injection *)
(* whenever it has a single pipe | that is not part of || (also when a ||  *)
(* occurs elsewhere in the command), command_substitution_dollar for       *)
(* $(...), command_substitution_backtick for a backtick pair and           *)
(* variable_expansion for ${...}; the empty list when none occurs.         *)
(***************************************************************************)
C26_EveryConstructReported ==
    Scanned =>
        /\ Reported("command_chaining_semicolon") <=> Contains(cmdline, <<";">>)
        /\ Reported("command_chaining_and") <=> Contains(cmdline, <<"&","&">>)
        /\ Reported("command_chaining_or") <=> Contains(cmdline, <<"|","|">>)
        /\ Reported("pipe_injection") <=> SinglePipe(cmdline)
        /\ Reported("command_substitution_dollar") <=> Pair(cmdline, <<"$","(">>, ")")
        /\ Reported("command_substitution_backtick") <=> Pair(cmdline, <<BQ>>, BQ)
        /\ Reported("variable_expansion") <=> Pair(cmdline, <<"$","{">>, "}")

\* no word that begins with a hyphen has an r in it
NoRecursiveFlag(ws) == \A i \in 1..Len(ws) : IsOption(ws[i]) => ~HasChar(ws[i], "r")

(***************************************************************************)
(* C27: an rm command without a recursive flag is never dangerous because  *)
(* of its target: for every command that has no r in any hyphen-introduced *)
(* flag cluster, no chaining metacharacter, no command substitution and no *)
(* --no-preserve-root, is_dangerous_rm_command returns False, also when    *)
(* the target is /, ~ or * and a force flag is present.                    *)
(***************************************************************************)
C27_NonRecursiveSafe ==
    (/\ Classified
     /\ PlainRm(command)
     /\ NoRecursiveFlag(Words(command)))
    => ~verdict

-----------------------------------------------------------------------------
\* MockFileSystem (tests/mocks/mock_filesystem.py).  files maps a normalised
\* path to the content of the MockFile stored there; blocked_paths and
\* read_only_paths are lists that are only ever appended to and searched, so
\* they are kept as sets.  fs_call is the call that was made last: its
\* operation, its normalised paths, whether it raised MockFileSystemError and
\* why, and the files as they were when it was called.

\* a dict with one more item, or one item less
Put(dict, k, v) == [x \in DOMAIN dict \cup {k} |-> IF x = k THEN v ELSE dict[x]]

Remove(dict, k) == [x \in DOMAIN dict \ {k} |-> dict[x]]

\* str.lstrip(chars)
RECURSIVE Lstrip(_, _)
Lstrip(s, chars) ==
    IF s # <<>> /\ Head(s) \in chars THEN Lstrip(Tail(s), chars) ELSE s

\* str.split('/')
RECURSIVE ComponentsFrom(_, _, _, _)
ComponentsFrom(s, i, cur, acc) ==
    IF i > Len(s) THEN Append(acc, cur)
    ELSE IF s[i] = "/" THEN ComponentsFrom(s, i + 1, <<>>, Append(acc, cur))
    ELSE ComponentsFrom(s, i + 1, Append(cur, s[i]), acc)

\* the loop of posixpath.normpath over the components of an absolute path
RECURSIVE Collapse(_, _)
Collapse(comps, new_comps) ==
    IF comps = <<>> THEN new_comps
    ELSE LET comp == Head(comps)
             rest == Tail(comps)
         IN  IF comp = <<>> \/ comp = <<".">> THEN Collapse(rest, new_comps)
             ELSE IF \/ comp # <<".",".">>
                     \/ (new_comps # <<>> /\ new_comps[Len(new_comps)] = <<".",".">>)
                  THEN Collapse(rest, Append(new_comps, comp))
             ELSE IF new_comps # <<>>
                  THEN Collapse(rest, SubSeq(new_comps, 1, Len(new_comps) - 1))
             ELSE Collapse(rest, new_comps)

\* os.path.normpath of a path that begins with a slash
normpath(s) ==
    LET initial_slashes ==
            IF StartsWith(s, <<"/","/">>) /\ ~StartsWith(s, <<"/","/","/">>) THEN <<"/","/">> ELSE <<"/">>
    IN  initial_slashes \o JoinWith(<<"/">>, Collapse(ComponentsFrom(s, 1, <<>>, <<>>), <<>>))

normalize_path(p) ==
    normpath(IF StartsWith(p, <<"/">>) THEN p ELSE <<"/">> \o Lstrip(p, {".", "/"}))

\* os.path.dirname of a normalised path
dirname(q) ==
    LET slashes == { i \in 1..Len(q) : q[i] = "/" }
        i == CHOOSE m \in slashes : \A n \in slashes : n <= m
        head == SubSeq(q, 1, i)
    IN  IF slashes = {} THEN <<>>
        ELSE IF \A n \in 1..Len(head) : head[n] = "/" THEN head
        ELSE SubSeq(head, 1, i - 1)

\* the directories that _ensure_parent_directory adds for a path
RECURSIVE ensure_parent_directory(_)
ensure_parent_directory(q) ==
    LET parent == dirname(q)
    IN  IF parent # <<>> /\ parent # <<"/">>
        THEN {parent} \cup ensure_parent_directory(parent)
        ELSE {}

\* _check_blocked and _check_read_only raise when an entry of the list is a
\* prefix of the path
check_blocked(q) == \E blocked \in blocked_paths : StartsWith(q, blocked)

check_read_only(q) == \E readonly \in read_only_paths : StartsWith(q, readonly)

\* how an operation ends: it returns or raises MockFileSystemError, and
\* leaves these files and directories behind
Done(fs) == [raised |-> FALSE, error |-> "", fs |-> fs]

MockFileSystemError(fs, error) == [raised |-> TRUE, error |-> error, fs |-> fs]

FileSystem == [files |-> files, directories |-> directories]

write_file(fs, q, content) ==
    IF check_blocked(q) THEN MockFileSystemError(fs, "blocked")
    ELSE IF check_read_only(q) THEN MockFileSystemError(fs, "read-only")
    ELSE Done([files |-> Put(fs.files, q, content),
               directories |-> fs.directories \cup ensure_parent_directory(q)])

read_file(fs, q) ==
    IF check_blocked(q) THEN MockFileSystemError(fs, "blocked")
    ELSE IF q \notin DOMAIN fs.files THEN MockFileSystemError(fs, "not found")
    ELSE Done(fs)

create_directory(fs, q) ==
    IF check_blocked(q) THEN MockFileSystemError(fs, "blocked")
    ELSE IF check_read_only(q) THEN MockFileSystemError(fs, "read-only")
    ELSE Done([files |-> fs.files,
               directories |-> fs.directories \cup ensure_parent_directory(q) \cup {q}])

delete_file(fs, q) ==
    IF check_read_only(q) THEN MockFileSystemError(fs, "read-only")
    ELSE IF q \notin DOMAIN fs.files THEN MockFileSystemError(fs, "not found")
    ELSE Done([files |-> Remove(fs.files, q), directories |-> fs.directories])

copy_file(fs, source, dest) ==
    IF source \notin DOMAIN fs.files THEN MockFileSystemError(fs, "not found")
    ELSE IF check_read_only(dest) THEN MockFileSystemError(fs, "read-only")
    ELSE Done([files |-> Put(fs.files, dest, fs.files[source]),
               directories |-> fs.directories])

\* copy_file, then delete_file on what the copy left behind
move_file(fs, source, dest) ==
    LET copied == copy_file(fs, source, dest)
    IN  IF copied.raised THEN copied ELSE delete_file(copied.fs, source)

\* the paths the callers pass: files in and beside the directory /a, the same
\* ones spelled relatively or through a parent directory, and directories
FsPaths == { <<"/","a","/","f">>, <<"/","a","b">>, <<"/","c">>, <<"a","/","f">>, <<"/","c","/",".",".","/","a","b">> }

DirPaths == { <<"/","a">>, <<"/","a","/","d">> }

BlockedInputs == { <<"/","a">>, <<"/","a","/">> }

ReadOnlyInputs == { <<"/","c">> }

Contents == { "old", "new" }

StoredPaths == { normalize_path(p) : p \in FsPaths }

FsCall(op, q, dest, outcome) ==
    [op |-> op, path |-> q, dest |-> dest, raised |-> outcome.raised,
     error |-> outcome.error, before |-> files]

\* MockFileSystem(initial_files): every initial file goes through write_file
InitFs ==
    /\ NoRmCall
    /\ NoToolCall
    /\ NoGate
    /\ NoHooks
    /\ NoEnv
    /\ \E initial_files \in UNION { [S -> Contents] : S \in SUBSET StoredPaths } :
          /\ files = initial_files
          /\ directories = {<<"/">>} \cup
                UNION { ensure_parent_directory(q) : q \in DOMAIN initial_files }
    /\ blocked_paths = {}
    /\ read_only_paths = {}
    /\ fs_call = NoFsCall

\* an operation that ended with this outcome
Leaves(outcome) ==
    /\ files' = outcome.fs.files
    /\ directories' = outcome.fs.directories
    /\ UNCHANGED <<outsideFs, blocked_paths, read_only_paths>>

WriteFile ==
    \E p \in FsPaths, content \in Contents :
        LET q == normalize_path(p)
            outcome == write_file(FileSystem, q, content)
        IN  /\ fs_call' = FsCall("write_file", q, <<>>, outcome)
            /\ Leaves(outcome)

ReadFile ==
    \E p \in FsPaths :
        LET q == normalize_path(p)
            outcome == read_file(FileSystem, q)
        IN  /\ fs_call' = FsCall("read_file", q, <<>>, outcome)
            /\ Leaves(outcome)

CreateDirectory ==
    \E p \in DirPaths :
        LET q == normalize_path(p)
            outcome == create_directory(FileSystem, q)
        IN  /\ fs_call' = FsCall("create_directory", q, <<>>, outcome)
            /\ Leaves(outcome)

DeleteFile ==
    \E p \in FsPaths :
        LET q == normalize_path(p)
            outcome == delete_file(FileSystem, q)
        IN  /\ fs_call' = FsCall("delete_file", q, <<>>, outcome)
            /\ Leaves(outcome)

CopyFile ==
    \E p \in FsPaths, d \in FsPaths :
        LET source == normalize_path(p)
            dest == normalize_path(d)
            outcome == copy_file(FileSystem, source, dest)
        IN  /\ fs_call' = FsCall("copy_file", source, dest, outcome)
            /\ Leaves(outcome)

MoveFile ==
    \E p \in FsPaths, d \in FsPaths :
        LET source == normalize_path(p)
            dest == normalize_path(d)
            outcome == move_file(FileSystem, source, dest)
        IN  /\ fs_call' = FsCall("move_file", source, dest, outcome)
            /\ Leaves(outcome)

BlockPath ==
    \E p \in BlockedInputs :
        /\ blocked_paths' = blocked_paths \cup {normalize_path(p)}
        /\ fs_call' = FsCall("block_path", normalize_path(p), <<>>, Done(FileSystem))
        /\ UNCHANGED <<outsideFs, files, directories, read_only_paths>>

MakeReadOnly ==
    \E p \in ReadOnlyInputs :
        /\ read_only_paths' = read_only_paths \cup {normalize_path(p)}
        /\ fs_call' = FsCall("make_read_only", normalize_path(p), <<>>, Done(FileSystem))
        /\ UNCHANGED <<outsideFs, files, directories, blocked_paths>>

\* reset() clears the files, the directories and the operation log; the two
\* lists of guarded paths are not touched
Reset ==
    /\ files' = <<>>
    /\ directories' = {<<"/">>}
    /\ fs_call' = FsCall("reset", <<>>, <<>>, Done(FileSystem))
    /\ UNCHANGED <<outsideFs, blocked_paths, read_only_paths>>

NextFs ==
    \/ WriteFile
    \/ ReadFile
    \/ CreateDirectory
    \/ DeleteFile
    \/ CopyFile
    \/ MoveFile
    \/ BlockPath
    \/ MakeReadOnly
    \/ Reset

SpecFs == InitFs /\ [][NextFs]_vars

\* q is the path p or a path below the directory p
AtOrBelow(q, p) ==
    \/ q = p
    \/ StartsWith(q, IF p = <<"/">> THEN p ELSE p \o <<"/">>)

\* the operations that read, write, create, delete, copy or move
AccessOps ==
    { "read_file", "write_file", "create_directory", "delete_file", "copy_file",
      "move_file" }

\* the paths the last call was about
Touched ==
    {fs_call.path} \cup
    (IF fs_call.op \in {"copy_file", "move_file"} THEN {fs_call.dest} ELSE {})

UnderBlockedPath == \E q \in Touched, p \in blocked_paths : AtOrBelow(q, p)

C30_FailureChangesNothing ==
    (/\ fs_call.op \in {"write_file", "delete_file", "copy_file", "move_file"}
     /\ fs_call.raised)
        => files = fs_call.before

-----------------------------------------------------------------------------
\* MockEnvironment (tests/mocks/mock_environment.py).  mock_env and
\* original_env are dicts from variable names to values; env_call is the call
\* that was made last: its operation, its key, whether it raised
\* PermissionError, and mock_env as it was when it was called.

Keys == { "PROTECTED_VAR", "BLOCKED_VAR" }

Values == { "initial", "changed" }

DictsOver(values) == UNION { [S -> values] : S \in SUBSET Keys }

\* os.environ at construction, as far as the two variables go
Environs == DictsOver({"initial"})

EnvCall(op, key, raised) == [op |-> op, key |-> key, raised |-> raised, before |-> mock_env]

\* MockEnvironment(isolated): original_env is a copy of os.environ, and
\* mock_env starts empty or as a copy of original_env
InitEnv ==
    /\ NoRmCall
    /\ NoToolCall
    /\ NoGate
    /\ NoHooks
    /\ NoFs
    /\ original_env \in Environs
    /\ \E isolated \in BOOLEAN : mock_env = IF isolated THEN <<>> ELSE original_env
    /\ protected_vars = {}
    /\ blocked_vars = {}
    /\ env_call = NoEnvCall

EnvSet ==
    \E key \in Keys, value \in Values :
        LET raises == \/ key \in blocked_vars
                      \/ (key \in protected_vars /\ key \in DOMAIN mock_env)
        IN  /\ mock_env' = IF raises THEN mock_env ELSE Put(mock_env, key, value)
            /\ env_call' = EnvCall("set", key, raises)
            /\ UNCHANGED <<outsideEnv, original_env, protected_vars, blocked_vars>>

EnvUnset ==
    \E key \in Keys :
        LET raises == key \in protected_vars \/ key \in blocked_vars
        IN  /\ mock_env' = IF raises THEN mock_env ELSE Remove(mock_env, key)
            /\ env_call' = EnvCall("unset", key, raises)
            /\ UNCHANGED <<outsideEnv, original_env, protected_vars, blocked_vars>>

EnvProtect ==
    \E key \in Keys :
        /\ protected_vars' = protected_vars \cup {key}
        /\ env_call' = EnvCall("protect", key, FALSE)
        /\ UNCHANGED <<outsideEnv, mock_env, original_env, blocked_vars>>

EnvBlock ==
    \E key \in Keys :
        /\ blocked_vars' = blocked_vars \cup {key}
        /\ env_call' = EnvCall("block", key, FALSE)
        /\ UNCHANGED <<outsideEnv, mock_env, original_env, protected_vars>>

\* load_from_dict clears mock_env when asked to and then stores every item of
\* env_dict; neither set of guarded names is looked at
LoadFromDict ==
    \E env_dict \in DictsOver(Values), clear_existing \in BOOLEAN :
        LET kept == IF clear_existing THEN <<>> ELSE mock_env
        IN  /\ mock_env' = [key \in DOMAIN kept \cup DOMAIN env_dict |->
                              IF key \in DOMAIN env_dict THEN env_dict[key] ELSE kept[key]]
            /\ env_call' = EnvCall("load_from_dict", "", FALSE)
            /\ UNCHANGED <<outsideEnv, original_env, protected_vars, blocked_vars>>

ResetToOriginal ==
    /\ mock_env' = original_env
    /\ env_call' = EnvCall("reset_to_original", "", FALSE)
    /\ UNCHANGED <<outsideEnv, original_env, protected_vars, blocked_vars>>

NextEnv ==
    \/ EnvSet
    \/ EnvUnset
    \/ EnvProtect
    \/ EnvBlock
    \/ LoadFromDict
    \/ ResetToOriginal

SpecEnv == InitEnv /\ [][NextEnv]_vars

MutatingOps == { "set", "unset", "load_from_dict", "reset_to_original" }

\* C29: a set, unset, load_from_dict or reset_to_original leaves the value of
\* every protected variable that held one as it was, and gives no value to a
\* blocked variable that had none
C29_GuardsHold ==
    env_call.op \in MutatingOps =>
        \A key \in Keys :
            /\ (key \in protected_vars /\ key \in DOMAIN env_call.before)
                  => (key \in DOMAIN mock_env /\ mock_env[key] = env_call.before[key])
            /\ (key \in blocked_vars /\ key \notin DOMAIN env_call.before)
                  => key \notin DOMAIN mock_env

====
